---- MODULE Spec2Model ----
(***************************************************************************)
(* sqlgram: the SQL-to-diagram pipeline (src/lib/sqlParser.ts) and the App *)
(* component that drives it (App.tsx: updateDiagram and the two effects).  *)
(*                                                                         *)
(* SQL text is a sequence of lexemes: words, punctuation and whitespace    *)
(* lexemes (" ", "\n", "    ").  A lexeme is a maximal run: two words are  *)
(* never adjacent in a text.  The regular expressions of parseSimpleSQL    *)
(* and parseSimpleColumns are evaluated over these sequences.  The grammar *)
(* parser (sql-parser-cst) is a library: its syntax tree is the structure  *)
(* the text was written from (the document), and it fails on a document    *)
(* that holds a malformed statement.                                       *)
(***************************************************************************)
EXTENDS Integers, Sequences, FiniteSets, TLC

VARIABLES
    sqlCode,      \* App: useState(defaultSQL), the editor's text
    diagram,      \* App: useState<SQLDiagram>
    sqlErrors,    \* App: useState<SQLError[]>
    isValidSQL,   \* App: useState(true)
    timer,        \* App: the browser's pending timeouts and the debounce effect's timeoutId
    phase,        \* App: "constructed" until the effects of the first render ran
    typed,        \* the document the text was written from (read by parse only)
    env,          \* what the runtime does to the extractors on this text
    lastCall,     \* observation: the last updateDiagram invocation
    probe,        \* observation: the last direct call of a library function
    download      \* CodeEditor: the files handleExport handed to the browser

vars == <<sqlCode, diagram, sqlErrors, isValidSQL, timer, phase, typed, env, lastCall, probe,
          download>>

---------------------------------------------------------------------------
\* Bounds of the model.

\* Statements per generated document.
MaxStmts == 2
\* Columns per generated table.
MaxCols == 2

---------------------------------------------------------------------------
\* Lexemes.

WS == {" ", "\n", "    "}

Punct == {"(", ")", ",", ";", "--", "@"}

IsWs(l) == l \in WS

\* \w+ : a lexeme made of word characters only.
IsWord(l) == l \notin WS /\ l \notin Punct

\* String.prototype.toUpperCase / the i flag, on the lexemes that occur in
\* lower case in the inputs.
Upper(l) ==
    CASE l = "create" -> "CREATE"
      [] l = "table" -> "TABLE"
      [] l = "tabel" -> "TABEL"
      [] l = "primary" -> "PRIMARY"
      [] l = "key" -> "KEY"
      [] l = "not" -> "NOT"
      [] l = "null" -> "NULL"
      [] l = "references" -> "REFERENCES"
      [] l = "forign" -> "FORIGN"
      [] OTHER -> l

\* The least index >= i of s that holds no whitespace lexeme (Len(s)+1 if none).
RECURSIVE SkipWs(_, _)
SkipWs(s, i) ==
    IF i > Len(s) THEN Len(s) + 1
    ELSE IF IsWs(s[i]) THEN SkipWs(s, i + 1) ELSE i

\* String.prototype.trim
RECURSIVE TrimRight(_)
TrimRight(s) ==
    IF s = <<>> THEN <<>>
    ELSE IF IsWs(s[Len(s)]) THEN TrimRight(SubSeq(s, 1, Len(s) - 1)) ELSE s

Trim(s) ==
    LET i == SkipWs(s, 1) IN TrimRight(SubSeq(s, i, Len(s)))

\* The number of characters of s[a..b].
RECURSIVE CharLen(_, _, _)
CharLen(s, a, b) == IF b < a THEN 0 ELSE CharLen(s, a, b - 1) + Len(s[b])

\* The number of lexemes equal to l in s.
Count(s, l) == Cardinality({i \in 1..Len(s) : s[i] = l})

---------------------------------------------------------------------------
\* Documents: what a user writes.  A document is a sequence of items; an
\* item is a CREATE TABLE statement, a comment line, another statement, or
\* malformed text.

CNotNull == [k |-> "notnull", table |-> "", column |-> ""]
CPrimaryKey == [k |-> "pk", table |-> "", column |-> ""]
CUnique == [k |-> "unique", table |-> "", column |-> ""]
CDefault(v) == [k |-> "default", table |-> "", column |-> v]
\* REFERENCES t(c); c = "" writes REFERENCES t.
CRef(t, c) == [k |-> "ref", table |-> t, column |-> c]
CRefCascade(t, c) == [k |-> "refcascade", table |-> t, column |-> c]
\* Misspelt constraints.
CPrimryKey == [k |-> "primry", table |-> "", column |-> ""]
CRefrences(t, c) == [k |-> "refrences", table |-> t, column |-> c]

ColDef(n, ty, cs) == [name |-> n, type |-> ty, cons |-> cs]

TableStmt(n, cs, pk) ==
    [k |-> "table", name |-> n, cols |-> cs, pk |-> pk, body |-> <<>>]
\* CREATE TABEL n (...);
TabelStmt(n, cs) ==
    [k |-> "tabel", name |-> n, cols |-> cs, pk |-> <<>>, body |-> <<>>]
CommentLine(b) ==
    [k |-> "comment", name |-> "", cols |-> <<>>, pk |-> <<>>, body |-> b]
SelectStmt ==
    [k |-> "select", name |-> "", cols |-> <<>>, pk |-> <<>>, body |-> <<>>]
\* Text no statement of the grammar starts with.
Garbage(b) ==
    [k |-> "garbage", name |-> "", cols |-> <<>>, pk |-> <<>>, body |-> b]
\* Whitespace only.
Blank(b) ==
    [k |-> "blank", name |-> "", cols |-> <<>>, pk |-> <<>>, body |-> b]

RenderCon(c) ==
    CASE c.k = "notnull" -> <<" ", "NOT", " ", "NULL">>
      [] c.k = "pk" -> <<" ", "PRIMARY", " ", "KEY">>
      [] c.k = "unique" -> <<" ", "UNIQUE">>
      [] c.k = "default" -> <<" ", "DEFAULT", " ", c.column>>
      [] c.k = "ref" ->
            IF c.column = "" THEN <<" ", "REFERENCES", " ", c.table>>
            ELSE <<" ", "REFERENCES", " ", c.table, "(", c.column, ")">>
      [] c.k = "refcascade" ->
            <<" ", "REFERENCES", " ", c.table, "(", c.column, ")",
              " ", "ON", " ", "DELETE", " ", "CASCADE">>
      [] c.k = "primry" -> <<" ", "PRIMRY", " ", "KEY">>
      [] c.k = "refrences" ->
            <<" ", "REFRENCES", " ", c.table, "(", c.column, ")">>

RECURSIVE RenderCons(_)
RenderCons(cs) ==
    IF cs = <<>> THEN <<>> ELSE RenderCon(Head(cs)) \o RenderCons(Tail(cs))

RenderCol(c) == <<c.name, " ">> \o c.type \o RenderCons(c.cons)

\* "a, b" of a table-level PRIMARY KEY (a, b).
RECURSIVE RenderNames(_)
RenderNames(ns) ==
    IF ns = <<>> THEN <<>>
    ELSE IF Len(ns) = 1 THEN <<ns[1]>>
    ELSE <<Head(ns), ",", " ">> \o RenderNames(Tail(ns))

\* The lines between the parentheses of CREATE TABLE, as defaultSQL lays
\* them out: one entry per line, indented, separated by ",".
RECURSIVE RenderEntries(_)
RenderEntries(es) ==
    IF es = <<>> THEN <<"\n">>
    ELSE <<"\n", "    ">> \o Head(es)
         \o (IF Len(es) > 1 THEN <<",">> ELSE <<>>)
         \o (IF Len(es) > 1 THEN RenderEntries(Tail(es)) ELSE <<"\n">>)

TableEntries(it) ==
    [i \in 1..Len(it.cols) |-> RenderCol(it.cols[i])]
    \o (IF it.pk = <<>> THEN <<>>
        ELSE << <<"PRIMARY", " ", "KEY", " ", "(">> \o RenderNames(it.pk) \o <<")">> >>)

RenderItem(it) ==
    CASE it.k = "table" ->
            <<"CREATE", " ", "TABLE", " ", it.name, " ", "(">>
            \o RenderEntries(TableEntries(it)) \o <<")", ";">>
      [] it.k = "tabel" ->
            <<"CREATE", " ", "TABEL", " ", it.name, " ", "(">>
            \o RenderEntries(TableEntries(it)) \o <<")", ";">>
      [] it.k = "comment" -> <<"--", " ">> \o it.body
      [] it.k = "select" -> <<"SELECT", " ", "1", ";">>
      [] it.k = "garbage" -> it.body
      [] it.k = "blank" -> it.body

\* Items are separated as in defaultSQL: a comment ends with its line, a
\* statement is followed by an empty line.
RECURSIVE Render(_)
Render(doc) ==
    IF doc = <<>> THEN <<>>
    ELSE IF Len(doc) = 1 THEN RenderItem(doc[1])
    ELSE RenderItem(Head(doc))
         \o (IF Head(doc).k = "comment" THEN <<"\n">> ELSE <<"\n", "\n">>)
         \o Render(Tail(doc))

\* defaultSQL
DefaultDoc ==
    << CommentLine(<<"PostgreSQL", " ", "Database", " ", "Schema", " ", "Example">>),
       TableStmt("users",
         << ColDef("id", <<"SERIAL">>, <<CPrimaryKey>>),
            ColDef("username", <<"VARCHAR", "(", "50", ")">>, <<CNotNull, CUnique>>),
            ColDef("email", <<"VARCHAR", "(", "100", ")">>, <<CNotNull, CUnique>>),
            ColDef("created_at", <<"TIMESTAMP">>, <<CDefault("CURRENT_TIMESTAMP")>>),
            ColDef("is_active", <<"BOOLEAN">>, <<CDefault("true")>>) >>, <<>>),
       TableStmt("posts",
         << ColDef("id", <<"SERIAL">>, <<CPrimaryKey>>),
            ColDef("title", <<"VARCHAR", "(", "200", ")">>, <<CNotNull>>),
            ColDef("content", <<"TEXT">>, <<>>),
            ColDef("user_id", <<"INTEGER">>, <<CNotNull, CRef("users", "id")>>),
            ColDef("created_at", <<"TIMESTAMP">>, <<CDefault("CURRENT_TIMESTAMP")>>),
            ColDef("updated_at", <<"TIMESTAMP">>, <<CDefault("CURRENT_TIMESTAMP")>>) >>, <<>>),
       TableStmt("categories",
         << ColDef("id", <<"SERIAL">>, <<CPrimaryKey>>),
            ColDef("name", <<"VARCHAR", "(", "100", ")">>, <<CNotNull, CUnique>>),
            ColDef("description", <<"TEXT">>, <<>>),
            ColDef("created_at", <<"TIMESTAMP">>, <<CDefault("CURRENT_TIMESTAMP")>>) >>, <<>>),
       TableStmt("post_categories",
         << ColDef("post_id", <<"INTEGER">>, <<CRefCascade("posts", "id")>>),
            ColDef("category_id", <<"INTEGER">>, <<CRefCascade("categories", "id")>>) >>,
         <<"post_id", "category_id">>),
       TableStmt("comments",
         << ColDef("id", <<"SERIAL">>, <<CPrimaryKey>>),
            ColDef("content", <<"TEXT">>, <<CNotNull>>),
            ColDef("post_id", <<"INTEGER">>, <<CNotNull, CRefCascade("posts", "id")>>),
            ColDef("user_id", <<"INTEGER">>, <<CNotNull, CRef("users", "id")>>),
            ColDef("parent_id", <<"INTEGER">>, <<CRef("comments", "id")>>),
            ColDef("created_at", <<"TIMESTAMP">>, <<CDefault("CURRENT_TIMESTAMP")>>) >>, <<>>) >>

defaultSQL == Render(DefaultDoc)

---------------------------------------------------------------------------
\* The library's data model (sqlParser.ts, interfaces).

\* foreignKey?: absent.  A foreign key that is present names a table.
Undefined == [table |-> "", column |-> ""]

HasFK(col) == col.foreignKey # Undefined

EmptyDiagram == [tables |-> <<>>, relationships |-> <<>>]

Min(S) == CHOOSE x \in S : \A y \in S : x <= y

\* A classifier that knows no junction table.
TypeWithoutJunction(fromTable, fromColumn, toTable, toColumn) ==
    IF \E i \in 1..Len(fromTable.columns) :
            /\ fromTable.columns[i].name = fromColumn
            /\ fromTable.columns[i].primaryKey
    THEN "one-to-one"
    ELSE "many-to-one"

\* Array.prototype.find by name: <<the first element named n>>, or <<>>.
FindByName(xs, n) ==
    LET I == {i \in 1..Len(xs) : xs[i].name = n}
    IN  IF I = {} THEN <<>> ELSE <<xs[Min(I)]>>

\* x?.primaryKey of a find result.
IsPrimaryKey(found) == found # <<>> /\ found[1].primaryKey

\* A classifier that names a reference to a primary key from the side of
\* the referenced table.
TypeFromReferencedSide(fromTable, fromColumn, toTable, toColumn) ==
    IF IsPrimaryKey(FindByName(fromTable.columns, fromColumn)) THEN "one-to-one"
    ELSE IF IsPrimaryKey(FindByName(toTable.columns, toColumn)) THEN "one-to-many"
    ELSE "many-to-one"

determineRelationshipType(fromTable, fromColumn, toTable, toColumn) ==
    LET fkColumn == FindByName(fromTable.columns, fromColumn)
        referencedColumn == FindByName(toTable.columns, toColumn)
        cols == fromTable.columns
        isJunctionTable ==
            /\ \A i \in 1..Len(cols) : HasFK(cols[i]) \/ cols[i].primaryKey
            /\ Cardinality({i \in 1..Len(cols) : HasFK(cols[i])}) >= 2
    IN  IF IsPrimaryKey(fkColumn) THEN "one-to-one"
        ELSE IF IsPrimaryKey(referencedColumn)
             THEN (IF isJunctionTable THEN "many-to-many" ELSE "many-to-one")
        ELSE "many-to-one"

\* A reclassification that needs the declaring table only: a target that
\* is not found counts as a table without columns.
ReclassifyUnfound(ts, rs) ==
    [i \in 1..Len(rs) |->
        IF FindByName(ts, rs[i].from.table) # <<>>
        THEN [rs[i] EXCEPT !.type =
                determineRelationshipType(
                    FindByName(ts, rs[i].from.table)[1], rs[i].from.column,
                    IF FindByName(ts, rs[i].to.table) # <<>>
                    THEN FindByName(ts, rs[i].to.table)[1]
                    ELSE [name |-> rs[i].to.table, columns |-> <<>>],
                    rs[i].to.column)]
        ELSE rs[i]]

\* relationships.forEach(...): the type of every relationship whose two
\* tables are found (by name, the first of that name) is recomputed.
Reclassify(ts, rs) ==
    [i \in 1..Len(rs) |->
        LET r == rs[i]
            foundFrom == FindByName(ts, r.from.table)
            foundTo == FindByName(ts, r.to.table)
        IN  IF foundFrom # <<>> /\ foundTo # <<>>
            THEN [r EXCEPT !.type =
                    determineRelationshipType(foundFrom[1], r.from.column,
                                              foundTo[1], r.to.column)]
            ELSE r]

\* The result every exit of an extractor builds.
ParseResult(ts, rs, es) ==
    [diagram |-> [tables |-> ts, relationships |-> rs],
     errors |-> es,
     isValid |-> Len(es) = 0]

---------------------------------------------------------------------------
\* The heuristic extractor: parseSimpleSQL and parseSimpleColumns.

RECURSIVE JoinLexemes(_)
JoinLexemes(s) == IF s = <<>> THEN "" ELSE Head(s) \o JoinLexemes(Tail(s))

\* The least index >= i of s that holds a whitespace lexeme (Len(s)+1 if none).
RECURSIVE NextWs(_, _)
NextWs(s, i) ==
    IF i > Len(s) THEN Len(s) + 1
    ELSE IF IsWs(s[i]) THEN i ELSE NextWs(s, i + 1)

\* columnStr.trim().split(/\s+/), for a trimmed string
RECURSIVE SplitWs(_)
SplitWs(s) ==
    IF s = <<>> THEN <<>>
    ELSE LET e == NextWs(s, 1)
         IN  <<JoinLexemes(SubSeq(s, 1, e - 1))>>
             \o SplitWs(SubSeq(s, SkipWs(s, e), Len(s)))

\* /,(?![^()]*\))/ at index i: a comma that is not followed, with no
\* parenthesis in between, by ")".
IsColumnSeparator(s, i) ==
    /\ s[i] = ","
    /\ LET P == {j \in (i + 1)..Len(s) : s[j] \in {"(", ")"}}
       IN  P = {} \/ s[Min(P)] = "("

\* String.prototype.split at the indices seps, from index from on.
RECURSIVE SplitAt(_, _, _)
SplitAt(s, from, seps) ==
    LET nxt == {i \in seps : i >= from}
    IN  IF nxt = {} THEN <<SubSeq(s, from, Len(s))>>
        ELSE <<SubSeq(s, from, Min(nxt) - 1)>> \o SplitAt(s, Min(nxt) + 1, seps)

\* A lexeme that starts with the keyword kw, among the lexemes of the inputs.
HasPrefix(l, kw) ==
    \/ Upper(l) = kw
    \/ <<Upper(l), kw>> \in {<<"CHECK_IN", "CHECK">>, <<"UNIQUE_ID", "UNIQUE">>}

\* A constraint-skip test that skips nothing: every entry of the column list
\* is taken for a column.
NoTableConstraint(columnStr) == FALSE

\* A constraint-skip test that wants the keyword to be a whole word.
IsTableConstraintWord(columnStr) ==
    LET s == columnStr
        i == SkipWs(s, 1)
        j == SkipWs(s, i + 1)
    IN  /\ i <= Len(s)
        /\ \/ /\ Upper(s[i]) \in {"PRIMARY", "FOREIGN"}
              /\ j > i + 1
              /\ j <= Len(s)
              /\ Upper(s[j]) = "KEY"
           \/ Upper(s[i]) \in {"UNIQUE", "CHECK", "CONSTRAINT"}

\* /^\s*(PRIMARY\s+KEY|FOREIGN\s+KEY|UNIQUE|CHECK|CONSTRAINT)/i
IsTableConstraint(columnStr) ==
    LET s == columnStr
        i == SkipWs(s, 1)
        j == SkipWs(s, i + 1)
    IN  /\ i <= Len(s)
        /\ \/ /\ Upper(s[i]) \in {"PRIMARY", "FOREIGN"}
              /\ j > i + 1
              /\ j <= Len(s)
              /\ HasPrefix(s[j], "KEY")
           \/ HasPrefix(s[i], "UNIQUE")
           \/ HasPrefix(s[i], "CHECK")
           \/ HasPrefix(s[i], "CONSTRAINT")

\* An includes that takes any whitespace between the two words.
IncludesPairAnyGap(s, a, b) ==
    \E i \in 1..(Len(s) - 2) :
        Upper(s[i]) = a /\ IsWs(s[i + 1]) /\ Upper(s[i + 2]) = b

\* columnText.includes(a + ' ' + b), columnText being upper case
IncludesPair(s, a, b) ==
    \E i \in 1..(Len(s) - 2) :
        Upper(s[i]) = a /\ s[i + 1] = " " /\ Upper(s[i + 2]) = b

\* /REFERENCES\s+(\w+)\s*\((\w+)\)/i matching from index i
ReferencesAt(s, i) ==
    LET j == SkipWs(s, i + 1)
        k == SkipWs(s, j + 1)
    IN  /\ Upper(s[i]) = "REFERENCES"
        /\ j > i + 1
        /\ j <= Len(s)
        /\ IsWord(s[j])
        /\ k + 2 <= Len(s)
        /\ s[k] = "("
        /\ IsWord(s[k + 1])
        /\ s[k + 2] = ")"

\* columnStr.match(/REFERENCES.../i): the foreign key of the first match
ReferencesMatch(s) ==
    LET M == {i \in 1..Len(s) : ReferencesAt(s, i)}
    IN  IF M = {} THEN Undefined
        ELSE LET i == Min(M)
                 j == SkipWs(s, i + 1)
                 k == SkipWs(s, j + 1)
             IN  [table |-> s[j], column |-> s[k + 1]]

\* The body of columnStrings.forEach: <<the column>>, or <<>> on a return.
SimpleColumn(piece) ==
    LET columnStr == Trim(piece)
        parts == SplitWs(columnStr)
    IN  IF columnStr = <<>> THEN <<>>
        ELSE IF IsTableConstraint(columnStr) THEN <<>>
        ELSE IF Len(parts) < 2 THEN <<>>
        ELSE LET isPk == IncludesPair(columnStr, "PRIMARY", "KEY")
             IN  << [name |-> parts[1],
                     type |-> parts[2],
                     nullable |-> ~(IncludesPair(columnStr, "NOT", "NULL") \/ isPk),
                     primaryKey |-> isPk,
                     foreignKey |-> ReferencesMatch(columnStr)] >>

\* columnStrings.forEach(...): the columns pushed, in order
RECURSIVE SimpleColumns(_)
SimpleColumns(pieces) ==
    IF pieces = <<>> THEN <<>>
    ELSE SimpleColumn(Head(pieces)) \o SimpleColumns(Tail(pieces))

parseSimpleColumns(columnsText) ==
    LET seps == {i \in 1..Len(columnsText) : IsColumnSeparator(columnsText, i)}
    IN  SimpleColumns(SplitAt(columnsText, 1, seps))

\* /CREATE\s+TABLE\s+(\w+)\s*\(([\s\S]*?)\);/gi matching from index i:
\* the indices of TABLE, the name, "(" and the closing ")" of ");".
CreateTableAt(s, i) ==
    LET t == SkipWs(s, i + 1)
        n == SkipWs(s, t + 1)
        o == SkipWs(s, n + 1)
        C == {e \in (o + 1)..(Len(s) - 1) : s[e] = ")" /\ s[e + 1] = ";"}
        ok == /\ Upper(s[i]) = "CREATE"
              /\ t > i + 1 /\ t <= Len(s) /\ Upper(s[t]) = "TABLE"
              /\ n > t + 1 /\ n <= Len(s) /\ IsWord(s[n])
              /\ o <= Len(s) /\ s[o] = "("
              /\ C # {}
    IN  IF ok
        THEN [ok |-> TRUE, name |-> s[n],
              columnsText |-> SubSeq(s, o + 1, Min(C) - 1), lastIndex |-> Min(C) + 2]
        ELSE [ok |-> FALSE, name |-> "", columnsText |-> <<>>, lastIndex |-> 0]

\* while ((match = createTableRegex.exec(sqlCode)) !== null): the matches
\* from lastIndex on, each search starting where the last match ended.
RECURSIVE ExecAll(_, _)
ExecAll(s, lastIndex) ==
    LET M == {i \in lastIndex..Len(s) : CreateTableAt(s, i).ok}
    IN  IF M = {} THEN <<>>
        ELSE LET m == CreateTableAt(s, Min(M))
             IN  <<m>> \o ExecAll(s, m.lastIndex)

\* A columns.forEach that stops after the first foreign-key column.
FirstRelationshipOf(tableName, columns) ==
    LET F == {i \in 1..Len(columns) : HasFK(columns[i])}
    IN  IF F = {} THEN <<>>
        ELSE LET c == columns[Min(F)]
             IN  << [from |-> [table |-> tableName, column |-> c.name],
                     to |-> [table |-> c.foreignKey.table,
                             column |-> c.foreignKey.column],
                     type |-> "many-to-one"] >>

\* columns.forEach: one placeholder relationship per foreign-key column
RECURSIVE RelationshipsOf(_, _)
RelationshipsOf(tableName, columns) ==
    IF columns = <<>> THEN <<>>
    ELSE LET c == Head(columns)
         IN  (IF HasFK(c)
              THEN << [from |-> [table |-> tableName, column |-> c.name],
                       to |-> [table |-> c.foreignKey.table,
                               column |-> c.foreignKey.column],
                       type |-> "many-to-one"] >>
              ELSE <<>>)
             \o RelationshipsOf(tableName, Tail(columns))

\* The relationships pushed over the whole while loop, table after table.
RECURSIVE PlaceholderRelationships(_)
PlaceholderRelationships(ts) ==
    IF ts = <<>> THEN <<>>
    ELSE RelationshipsOf(Head(ts).name, Head(ts).columns)
         \o PlaceholderRelationships(Tail(ts))

SQLError(message, line, column, severity) ==
    [message |-> message, line |-> line, column |-> column, severity |-> severity]

\* commonTypos: pattern.exec(sqlCode) matching at index i
TypoAt(s, i, first, second) ==
    IF second = ""
    THEN Upper(s[i]) = first
    ELSE LET j == SkipWs(s, i + 1)
         IN  Upper(s[i]) = first /\ j > i + 1 /\ j <= Len(s) /\ Upper(s[j]) = second

\* beforeMatch.split('\n'): line and column of index i
LineOf(s, i) == Count(SubSeq(s, 1, i - 1), "\n") + 1

ColumnOf(s, i) ==
    LET N == {j \in 1..(i - 1) : s[j] = "\n"}
        last == IF N = {} THEN 0 ELSE CHOOSE j \in N : \A k \in N : k <= j
    IN  CharLen(s, last + 1, i - 1) + 1

\* A typo search with a pattern object that outlives the call: once
\* parseSimpleSQL has run on the text, exec resumes at the lastIndex the
\* first match left.
TypoErrorSharedPattern(s, first, second, message) ==
    LET M == {i \in 1..Len(s) : TypoAt(s, i, first, second)}
        R == {i \in M : probe.step < 2 \/ i > Min(M)}
    IN  IF R = {} THEN <<>>
        ELSE <<SQLError(<<message>>, LineOf(s, Min(R)), ColumnOf(s, Min(R)), "warning")>>

\* A typo search that reports the last match instead of the first.
TypoErrorLastMatch(s, first, second, message) ==
    LET M == {i \in 1..Len(s) : TypoAt(s, i, first, second)}
        last == CHOOSE i \in M : \A j \in M : j <= i
    IN  IF M = {} THEN <<>>
        ELSE <<SQLError(<<message>>, LineOf(s, last), ColumnOf(s, last), "warning")>>

\* const match = pattern.exec(sqlCode), the pattern being new in every call
TypoError(s, first, second, message) ==
    LET M == {i \in 1..Len(s) : TypoAt(s, i, first, second)}
    IN  IF M = {} THEN <<>>
        ELSE <<SQLError(<<message>>, LineOf(s, Min(M)), ColumnOf(s, Min(M)), "warning")>>

commonTypos(s) ==
    TypoError(s, "CREATE", "TABEL", "Did you mean CREATE TABLE?")
    \o TypoError(s, "PRIMRY", "KEY", "Did you mean PRIMARY KEY?")
    \o TypoError(s, "REFRENCES", "", "Did you mean REFERENCES?")
    \o TypoError(s, "FORIGN", "KEY", "Did you mean FOREIGN KEY?")

\* A parenthesis count that only warns.
UnmatchedParensWarning(s) ==
    IF Count(s, "(") # Count(s, ")")
    THEN <<SQLError(<<"Unmatched parentheses in SQL">>, 1, 1, "warning")>>
    ELSE <<>>

\* openParens !== closeParens
UnmatchedParens(s) ==
    IF Count(s, "(") # Count(s, ")")
    THEN <<SQLError(<<"Unmatched parentheses in SQL">>, 1, 1, "error")>>
    ELSE <<>>

\* tables.push({ name: tableName, columns }) for every match
MatchedTables(matches) ==
    [i \in 1..Len(matches) |->
        [name |-> matches[i].name,
         columns |-> parseSimpleColumns(matches[i].columnsText)]]

\* parseSimpleSQL once the while loop has pushed tables
SimpleResult(code, tables) ==
    ParseResult(tables,
                Reclassify(tables, PlaceholderRelationships(tables)),
                UnmatchedParens(code) \o commonTypos(code))

parseSimpleSQL(code) ==
    IF Trim(code) = <<>> THEN ParseResult(<<>>, <<>>, <<>>)
    ELSE SimpleResult(code, MatchedTables(ExecAll(code, 1)))

---------------------------------------------------------------------------
\* The grammar parser (sql-parser-cst, parse) as parseSQLToDiagram uses it.

\* Lexemes no statement of the grammar admits outside a comment.
Offending == {"TABEL", "tabel", "PRIMRY", "REFRENCES", "FORIGN", "forign", "@"}

\* Index i of text s lies in a "--" comment: a "--" precedes it on its line.
InComment(s, i) ==
    \E j \in 1..(i - 1) :
        s[j] = "--" /\ \A k \in j..(i - 1) : s[k] # "\n"

\* The largest line or column number a diagnostic message is read for.
MaxNumber == 120

IsNumber(l) == \E n \in 0..MaxNumber : ToString(n) = l

\* parseInt(l, 10) of a lexeme of digits
parseInt(l) == CHOOSE n \in 0..MaxNumber : ToString(n) = l

AstConstraint(c) ==
    CASE c.k = "notnull" ->
            [type |-> "constraint_not_null", table |-> "", columns |-> <<>>]
      [] c.k = "pk" ->
            [type |-> "constraint_primary_key", table |-> "", columns |-> <<>>]
      [] c.k = "unique" ->
            [type |-> "constraint_unique", table |-> "", columns |-> <<>>]
      [] c.k = "default" ->
            [type |-> "constraint_default", table |-> "", columns |-> <<>>]
      [] c.k \in {"ref", "refcascade"} ->
            [type |-> "references_specification", table |-> c.table,
             columns |-> IF c.column = "" THEN <<>> ELSE <<c.column>>]

\* An entry of a CREATE TABLE statement: a column definition, or a
\* table-level constraint, which has no name.
AstColumn(c) ==
    [type |-> "column_definition", name |-> c.name, dataType |-> c.type[1],
     constraints |-> [i \in 1..Len(c.cons) |-> AstConstraint(c.cons[i])]]

AstTableConstraint ==
    [type |-> "constraint_primary_key", name |-> "", dataType |-> "",
     constraints |-> <<>>]

AstStatement(it) ==
    IF it.k = "table"
    THEN [type |-> "create_table_stmt", name |-> it.name,
          items |-> [i \in 1..Len(it.cols) |-> AstColumn(it.cols[i])]
                    \o (IF it.pk = <<>> THEN <<>> ELSE <<AstTableConstraint>>)]
    ELSE [type |-> "select_stmt", name |-> "", items |-> <<>>]

RECURSIVE AstStatements(_)
AstStatements(doc) ==
    IF doc = <<>> THEN <<>>
    ELSE (IF Head(doc).k \in {"table", "select"}
          THEN <<AstStatement(Head(doc))>> ELSE <<>>)
         \o AstStatements(Tail(doc))

\* The message of the library's syntax error for the lexeme at index i.
SyntaxErrorMessage(s, i) ==
    <<"Syntax Error: Unexpected", " ", s[i], "\n",
      "Was expecting", " ", "to see: ...", "\n",
      "-->", " ", "undefined", ":", ToString(LineOf(s, i)), ":",
      ToString(ColumnOf(s, i))>>

\* parse(sqlCode, {dialect: 'postgresql', ...}): the program, or a throw.
\* doc is the document code was written from.
parse(code, doc, parserEnv) ==
    LET bad == {i \in 1..Len(code) : code[i] \in Offending /\ ~InComment(code, i)}
    IN  IF parserEnv = "throwsNull"
        THEN [kind |-> "thrown_null", statements |-> <<>>, message |-> <<>>]
        ELSE IF bad # {}
        THEN [kind |-> "syntax_error", statements |-> <<>>,
              message |-> SyntaxErrorMessage(code, Min(bad))]
        ELSE [kind |-> "program", statements |-> AstStatements(doc),
              message |-> <<>>]

---------------------------------------------------------------------------
\* The grammar extractor: parseSQLToDiagram, parseCreateTable, parseColumn,
\* parseErrorLocation.

\* /-->\s*(?:\w*:)?(\d+):(\d+)/ matching from index i: <<line, column>>
LocationAt(s, i) ==
    LET j == SkipWs(s, i + 1)
        Num(k) == k <= Len(s) /\ IsNumber(s[k])
        Colon(k) == k <= Len(s) /\ s[k] = ":"
    IN  IF s[i] # "-->" THEN <<>>
        ELSE IF j <= Len(s) /\ IsWord(s[j]) /\ s[j] # ":" /\ Colon(j + 1)
                /\ Num(j + 2) /\ Colon(j + 3) /\ Num(j + 4)
        THEN <<parseInt(s[j + 2]), parseInt(s[j + 4])>>
        ELSE IF Colon(j) /\ Num(j + 1) /\ Colon(j + 2) /\ Num(j + 3)
        THEN <<parseInt(s[j + 1]), parseInt(s[j + 3])>>
        ELSE IF Num(j) /\ Colon(j + 1) /\ Num(j + 2)
        THEN <<parseInt(s[j]), parseInt(s[j + 2])>>
        ELSE <<>>

\* /^([^-\n]+?)(?:\s*-->|\s*Was expecting|\s*$)/: the end of group 1, or 0
MainErrorEnd(s) ==
    LET Stop(k) ==
            LET j == SkipWs(s, k)
            IN  j > Len(s) \/ s[j] = "-->" \/ s[j] = "Was expecting"
        E == {e \in 1..Len(s) :
                /\ \A k \in 1..e : s[k] \notin {"\n", "-->", "--"}
                /\ Stop(e + 1)}
    IN  IF E = {} THEN 0 ELSE Min(E)

\* A search that takes the last location marker of the message.
parseErrorLocationLastMarker(errorMessage) ==
    LET L == {i \in 1..Len(errorMessage) : LocationAt(errorMessage, i) # <<>>}
        last == CHOOSE i \in L : \A j \in L : j <= i
        loc == IF L = {} THEN <<1, 1>> ELSE LocationAt(errorMessage, last)
        e == MainErrorEnd(errorMessage)
    IN  [line |-> loc[1], column |-> loc[2],
         cleanMessage |-> IF e = 0 THEN errorMessage
                          ELSE Trim(SubSeq(errorMessage, 1, e))]

parseErrorLocation(errorMessage) ==
    LET L == {i \in 1..Len(errorMessage) : LocationAt(errorMessage, i) # <<>>}
        loc == IF L = {} THEN <<1, 1>> ELSE LocationAt(errorMessage, Min(L))
        e == MainErrorEnd(errorMessage)
    IN  [line |-> loc[1], column |-> loc[2],
         cleanMessage |-> IF e = 0 THEN errorMessage
                          ELSE Trim(SubSeq(errorMessage, 1, e))]

\* The constraints.forEach of parseColumn, constraint after constraint.
RECURSIVE ForeignKeyOf(_)
ForeignKeyOf(constraints) ==
    IF constraints = <<>> THEN Undefined
    ELSE LET c == constraints[Len(constraints)]
         IN  IF /\ c.type \in {"references_specification", "constraint_foreign_key"}
                /\ c.table # ""
             THEN [table |-> c.table,
                   column |-> IF c.columns = <<>> THEN "id" ELSE c.columns[1]]
             ELSE ForeignKeyOf(SubSeq(constraints, 1, Len(constraints) - 1))

\* A parseColumn whose primary-key branch does not clear nullable.
parseColumnNullableKey(col) ==
    IF col.name = "" THEN <<>>
    ELSE << [name |-> col.name,
             type |-> IF col.dataType = "" THEN "unknown" ELSE col.dataType,
             nullable |-> ~\E i \in 1..Len(col.constraints) :
                              col.constraints[i].type = "constraint_not_null",
             primaryKey |-> \E i \in 1..Len(col.constraints) :
                              col.constraints[i].type = "constraint_primary_key",
             foreignKey |-> ForeignKeyOf(col.constraints)] >>

\* <<the column>>, or <<>> for null
parseColumn(col) ==
    LET HasType(t) == \E i \in 1..Len(col.constraints) : col.constraints[i].type = t
        pk == HasType("constraint_primary_key")
    IN  IF col.name = "" THEN <<>>
        ELSE << [name |-> col.name,
                 type |-> IF col.dataType = "" THEN "unknown" ELSE col.dataType,
                 nullable |-> ~(HasType("constraint_not_null") \/ pk),
                 primaryKey |-> pk,
                 foreignKey |-> ForeignKeyOf(col.constraints)] >>

RECURSIVE ParsedColumns(_)
ParsedColumns(items) ==
    IF items = <<>> THEN <<>>
    ELSE parseColumn(Head(items)) \o ParsedColumns(Tail(items))

\* <<the table>>, or <<>> for null
parseCreateTable(statement) ==
    IF statement.name = "" THEN <<>>
    ELSE << [name |-> statement.name, columns |-> ParsedColumns(statement.items)] >>

\* statements.forEach: the tables pushed
RECURSIVE ParsedTables(_)
ParsedTables(statements) ==
    IF statements = <<>> THEN <<>>
    ELSE (IF Head(statements).type = "create_table_stmt"
          THEN parseCreateTable(Head(statements)) ELSE <<>>)
         \o ParsedTables(Tail(statements))

\* A relationship extraction that writes the referenced column as the
\* relationship's origin and the declaring column as its target.
RECURSIVE SwappedRelationshipsOf(_, _, _)
SwappedRelationshipsOf(table, columns, all) ==
    IF columns = <<>> THEN <<>>
    ELSE LET c == Head(columns)
         IN  (IF HasFK(c) /\ FindByName(all, c.foreignKey.table) # <<>>
              THEN << [from |-> [table |-> c.foreignKey.table,
                                 column |-> c.foreignKey.column],
                       to |-> [table |-> table.name, column |-> c.name],
                       type |-> "many-to-one"] >>
              ELSE <<>>)
             \o SwappedRelationshipsOf(table, Tail(columns), all)

\* A relationship extraction without the test of referencedTable: a
\* relationship per foreign-key column, found or not.
RECURSIVE UnfilteredRelationshipsOf(_, _, _)
UnfilteredRelationshipsOf(table, columns, all) ==
    IF columns = <<>> THEN <<>>
    ELSE LET c == Head(columns)
         IN  (IF HasFK(c)
              THEN << [from |-> [table |-> table.name, column |-> c.name],
                       to |-> [table |-> c.foreignKey.table,
                               column |-> c.foreignKey.column],
                       type |-> "many-to-one"] >>
              ELSE <<>>)
             \o UnfilteredRelationshipsOf(table, Tail(columns), all)

\* table.columns.forEach: a relationship per foreign-key column whose
\* referenced table is found among all the tables
RECURSIVE ResolvedRelationshipsOf(_, _, _)
ResolvedRelationshipsOf(table, columns, all) ==
    IF columns = <<>> THEN <<>>
    ELSE LET c == Head(columns)
             referencedTable == FindByName(all, c.foreignKey.table)
         IN  (IF HasFK(c) /\ referencedTable # <<>>
              THEN << [from |-> [table |-> table.name, column |-> c.name],
                       to |-> [table |-> c.foreignKey.table,
                               column |-> c.foreignKey.column],
                       type |-> determineRelationshipType(
                                    table, c.name, referencedTable[1],
                                    c.foreignKey.column)] >>
              ELSE <<>>)
             \o ResolvedRelationshipsOf(table, Tail(columns), all)

\* tables.forEach of the relationship extraction
RECURSIVE ResolvedRelationships(_, _)
ResolvedRelationships(ts, all) ==
    IF ts = <<>> THEN <<>>
    ELSE ResolvedRelationshipsOf(Head(ts), Head(ts).columns, all)
         \o ResolvedRelationships(Tail(ts), all)

Returned(r) == [threw |-> FALSE, result |-> r]

Thrown == [threw |-> TRUE, result |-> ParseResult(<<>>, <<>>, <<>>)]

\* A catch block that reports the parser's message twice: once as it is
\* located, once at the start of the text.
SyntaxErrorResultTwice(message) ==
    ParseResult(<<>>, <<>>,
                <<SQLError(parseErrorLocation(message).cleanMessage,
                           parseErrorLocation(message).line,
                           parseErrorLocation(message).column, "error"),
                  SQLError(message, 1, 1, "error")>>)

\* The catch block of parseSQLToDiagram for a thrown Error with a message.
SyntaxErrorResult(message) ==
    LET loc == parseErrorLocation(message)
    IN  ParseResult(<<>>, <<>>,
                    <<SQLError(loc.cleanMessage, loc.line, loc.column, "error")>>)

\* A relationship extraction inside statements.forEach: the referenced table
\* is looked for among the tables pushed so far.
RECURSIVE ResolvedInOrder(_, _)
ResolvedInOrder(ts, n) ==
    IF n = 0 THEN <<>>
    ELSE ResolvedInOrder(ts, n - 1)
         \o ResolvedRelationshipsOf(ts[n], ts[n].columns, SubSeq(ts, 1, n))

ProgramResultInOrder(tables) ==
    ParseResult(tables,
                Reclassify(tables, ResolvedInOrder(tables, Len(tables))),
                <<>>)

\* The try block of parseSQLToDiagram once statements.forEach pushed tables.
ProgramResult(tables) ==
    ParseResult(tables,
                Reclassify(tables, ResolvedRelationships(tables, tables)),
                <<>>)

\* parseSQLToDiagram after the call of parse: the try block, or the catch.
AfterParse(ast) ==
    CASE ast.kind = "program" ->
            Returned(ProgramResult(ParsedTables(ast.statements)))
      [] ast.kind = "syntax_error" ->
            Returned(SyntaxErrorResult(ast.message))
      \* error is null: reading sqlError.message in the catch block throws
      [] ast.kind = "thrown_null" -> Thrown

\* The call parseSQLToDiagram(sqlCode): what it returns, or that it threw.
parseSQLToDiagram(code, doc, parserEnv) ==
    IF Trim(code) = <<>> THEN Returned(ParseResult(<<>>, <<>>, <<>>))
    ELSE AfterParse(parse(code, doc, parserEnv))

\* The call parseSimpleSQL(sqlCode) under the runtime env.
CallSimple(code, simpleEnv) ==
    IF simpleEnv = "throws" THEN Thrown ELSE Returned(parseSimpleSQL(code))

---------------------------------------------------------------------------
\* The orchestrator: App, updateDiagram.

\* What one run of updateDiagram did: the state it set, how often it called
\* parseSimpleSQL, and whether an exception left it.
StateSet(r, calls, src) ==
    [threw |-> FALSE, diagram |-> r.diagram, errors |-> r.errors,
     isValid |-> r.isValid, simpleCalls |-> calls, source |-> src]

Escaped(calls) ==
    [threw |-> TRUE, diagram |-> EmptyDiagram, errors |-> <<>>,
     isValid |-> TRUE, simpleCalls |-> calls, source |-> "none"]

CriticalResult ==
    [diagram |-> EmptyDiagram,
     errors |-> <<SQLError(<<"Critical parsing error">>, 1, 1, "error")>>,
     isValid |-> FALSE]

\* catch (error) { try { parseSimpleSQL } catch (simpleError) { ... } }
\* A catch block without the inner try: a throw of parseSimpleSQL leaves
\* updateDiagram.
InnerTryUnguarded(simpleCall, calls) ==
    IF simpleCall.threw
    THEN Escaped(calls + 1)
    ELSE StateSet(simpleCall.result, calls + 1, "simple")

\* The inner try of the catch block, simpleCall being its call of
\* parseSimpleSQL: the state set from its result, or the critical error.
InnerTry(simpleCall, calls) ==
    IF simpleCall.threw
    THEN StateSet(CriticalResult, calls + 1, "critical")
    ELSE StateSet(simpleCall.result, calls + 1, "simple")

\* A catch block that gives up at once: it sets the empty valid result and
\* does not call parseSimpleSQL.
CatchSetsEmpty(code, simpleEnv, calls) ==
    StateSet(ParseResult(<<>>, <<>>, <<>>), calls, "empty")

\* catch (error) { ... }
CatchFallback(code, simpleEnv, calls) ==
    InnerTry(CallSimple(code, simpleEnv), calls)

\* A try block that takes the result of parseSimpleSQL whatever it holds.
PreferSimpleAlways(code, simpleEnv, parseResult, simpleCall) ==
    IF simpleCall.threw THEN CatchFallback(code, simpleEnv, 1)
    ELSE StateSet(simpleCall.result, 1, "simple")

\* if (simpleParseResult.diagram.tables.length > 0) ... else ..., simpleCall
\* being the try block's call of parseSimpleSQL; its throw enters the catch.
PreferSimple(code, simpleEnv, parseResult, simpleCall) ==
    IF simpleCall.threw THEN CatchFallback(code, simpleEnv, 1)
    ELSE IF Len(simpleCall.result.diagram.tables) > 0
    THEN StateSet(simpleCall.result, 1, "simple")
    ELSE StateSet(parseResult, 1, "grammar")

\* A try block that asks the heuristic extractor whenever the grammar
\* extractor found no table, valid or not.
UseParseResultIgnoringValidity(code, simpleEnv, parseResult) ==
    IF Len(parseResult.diagram.tables) = 0
    THEN PreferSimple(code, simpleEnv, parseResult, CallSimple(code, simpleEnv))
    ELSE StateSet(parseResult, 0, "grammar")

\* A try block that asks the heuristic extractor whenever the grammar
\* extractor's result is valid, tables or not.
UseParseResultIgnoringTables(code, simpleEnv, parseResult) ==
    IF parseResult.isValid
    THEN PreferSimple(code, simpleEnv, parseResult, CallSimple(code, simpleEnv))
    ELSE StateSet(parseResult, 0, "grammar")

\* The body of the try block once parseSQLToDiagram returned parseResult.
UseParseResult(code, simpleEnv, parseResult) ==
    IF Len(parseResult.diagram.tables) = 0 /\ parseResult.isValid
    THEN PreferSimple(code, simpleEnv, parseResult, CallSimple(code, simpleEnv))
    ELSE StateSet(parseResult, 0, "grammar")

\* The try statement, called being its call of parseSQLToDiagram.
TryGrammar(code, simpleEnv, called) ==
    IF called.threw THEN CatchFallback(code, simpleEnv, 0)
    ELSE UseParseResult(code, simpleEnv, called.result)

\* An updateDiagram without the test of an empty text.
updateDiagramAlwaysParses(code, doc, e) ==
    TryGrammar(code, e.simple, parseSQLToDiagram(code, doc, e.parser))

updateDiagram(code, doc, e) ==
    IF Trim(code) = <<>> THEN StateSet(ParseResult(<<>>, <<>>, <<>>), 0, "empty")
    ELSE TryGrammar(code, e.simple, parseSQLToDiagram(code, doc, e.parser))

\* setTimeout(..., 500)
DebounceMs == 500

\* The step in which the model lets time pass.
TickMs == DebounceMs \div 2

NormalEnv == [parser |-> "normal", simple |-> "normal"]

Envs == [parser : {"normal", "throwsNull"}, simple : {"normal", "throws"}]

\* No timeout is pending and no debounce effect has run.
NoTimer == [timeoutId |-> 0, pending |-> {}]

\* setTimeout: an id that no pending timeout has.
NewTimeoutId(pending) ==
    Min({i \in 1..(Cardinality(pending) + 1) : \A t \in pending : t.id # i})

\* clearTimeout(id)
clearTimeout(pending, id) == {t \in pending : t.id # id}

\* A timeout whose callback is the first render's updateDiagram, whatever
\* the render that sets it.
TimeoutOfFirstRender(id, code, doc, e) ==
    [id |-> id, age |-> 0, code |-> defaultSQL, doc |-> DefaultDoc, env |-> NormalEnv]

\* The timeout set by the debounce effect of the render of (code, doc, e);
\* its callback is that render's updateDiagram.
Timeout(id, code, doc, e) == [id |-> id, age |-> 0, code |-> code, doc |-> doc, env |-> e]

\* A debounce effect whose clean-up function is missing.
DebounceWithoutCleanup(t, code, doc, e) ==
    [timeoutId |-> NewTimeoutId(t.pending),
     pending   |-> t.pending \cup {Timeout(NewTimeoutId(t.pending), code, doc, e)}]

\* The debounce effect after a render: the previous run's clean-up,
\* clearTimeout(timeoutId), and then this run's setTimeout.
Debounce(t, code, doc, e) ==
    [timeoutId |-> NewTimeoutId(clearTimeout(t.pending, t.timeoutId)),
     pending   |-> clearTimeout(t.pending, t.timeoutId) \cup
                   {Timeout(NewTimeoutId(clearTimeout(t.pending, t.timeoutId)),
                            code, doc, e)}]

\* The time since the last render's debounce effect ran, as far as the
\* model knows it.
SinceRender(t) ==
    IF \E p \in t.pending : p.id = t.timeoutId
    THEN (CHOOSE p \in t.pending : p.id = t.timeoutId).age
    ELSE DebounceMs

NoCall == [trigger |-> "none", elapsed |-> 0, threw |-> FALSE, simpleCalls |-> 0,
           source |-> "none"]

Idle == [step |-> 0]

\* Files handed to the browser that the model counts.
MaxDownloads == 1

\* No file yet, and the Export button not pressed yet.
NoDownload == [count |-> 0, last |-> "none"]

\* One invocation of the updateDiagram closure over (code, doc, e).
Invoked(r, trigger, elapsed) ==
    /\ IF r.threw
       THEN UNCHANGED <<diagram, sqlErrors, isValidSQL>>
       ELSE /\ diagram' = r.diagram
            /\ sqlErrors' = r.errors
            /\ isValidSQL' = r.isValid
    /\ lastCall' = [trigger |-> trigger, elapsed |-> elapsed, threw |-> r.threw,
                    simpleCalls |-> r.simpleCalls, source |-> r.source]

Invoke(code, doc, e, trigger, elapsed) ==
    Invoked(updateDiagram(code, doc, e), trigger, elapsed)

\* The two effects with dependency [updateDiagram], run after a render in
\* which sqlCode changed: the debounce effect clears the pending timeout and
\* sets a new one; the "initial diagram update" effect calls updateDiagram.
RunEffects(code, doc, e) ==
    /\ timer' = Debounce(timer, code, doc, e)
    /\ Invoke(code, doc, e, "effect", 0)

Init ==
    /\ sqlCode = defaultSQL
    /\ diagram = EmptyDiagram
    /\ sqlErrors = <<>>
    /\ isValidSQL = TRUE
    /\ timer = NoTimer
    /\ phase = "constructed"
    /\ typed = DefaultDoc
    /\ env = NormalEnv
    /\ lastCall = NoCall
    /\ download = NoDownload
    /\ probe = Idle

\* The first render's effects.
Mount ==
    /\ phase = "constructed"
    /\ phase' = "mounted"
    /\ RunEffects(sqlCode, typed, env)
    /\ UNCHANGED <<sqlCode, typed, env, probe, download>>

\* setSqlCode(text): a state change re-renders and runs the effects; setting
\* the same text changes nothing.
SetSqlCode(doc, e) ==
    /\ phase = "mounted"
    /\ Render(doc) # sqlCode
    /\ sqlCode' = Render(doc)
    /\ typed' = doc
    /\ env' = e
    /\ RunEffects(Render(doc), doc, e)
    /\ UNCHANGED <<phase, probe, download>>

\* 250 ms pass while a timeout is pending and not yet due.
Tick ==
    /\ \E t \in timer.pending : t.age < DebounceMs
    /\ timer' = [timer EXCEPT !.pending =
                    {[t EXCEPT !.age = Min({t.age + TickMs, DebounceMs})] : t \in timer.pending}]
    /\ UNCHANGED <<sqlCode, diagram, sqlErrors, isValidSQL, phase, typed, env,
                   lastCall, probe, download>>

\* The callback of a pending timeout that is due.
TimerFire ==
    \E t \in timer.pending :
        /\ t.age >= DebounceMs
        /\ timer' = [timer EXCEPT !.pending = timer.pending \ {t}]
        /\ Invoke(t.code, t.doc, t.env, "timer", t.age)
        /\ UNCHANGED <<sqlCode, phase, typed, env, probe, download>>

\* The Run button, disabled while isValid is false: onExecute = updateDiagram
\* of the last render.
Execute ==
    /\ phase = "mounted"
    /\ isValidSQL
    /\ Invoke(sqlCode, typed, env, "execute",
              SinceRender(timer))
    /\ UNCHANGED <<sqlCode, timer, phase, typed, env, probe, download>>

\* An Export button that is always enabled, with a handler that does not
\* look at isValid.
ExportUnguarded ==
    /\ phase = "mounted"
    /\ download.count < MaxDownloads
    /\ download' = [count |-> download.count + 1, last |-> "saved"]
    /\ UNCHANGED <<sqlCode, diagram, sqlErrors, isValidSQL, timer, phase, typed, env,
                   lastCall, probe>>

\* The Export button and handleExport: nothing while isValid is false (the
\* button is disabled and the handler returns), else a file of the text.
Export ==
    /\ phase = "mounted"
    /\ isValidSQL => download.count < MaxDownloads
    /\ download' = IF ~isValidSQL
                   THEN [download EXCEPT !.last = "ignored"]
                   ELSE [count |-> download.count + 1, last |-> "saved"]
    /\ UNCHANGED <<sqlCode, diagram, sqlErrors, isValidSQL, timer, phase, typed, env,
                   lastCall, probe>>

---------------------------------------------------------------------------
\* Inputs.

IdPk == ColDef("id", <<"INT">>, <<CPrimaryKey>>)

EmptyDocument == <<>>

WhitespaceDoc == <<Blank(<<" ", "\n", "    ">>)>>

CommentOnlyDoc == <<CommentLine(<<"just", " ", "notes">>)>>

\* -- CREATE TABLE foo (id INT);
CommentedTableDoc ==
    <<CommentLine(<<"CREATE", " ", "TABLE", " ", "foo", " ", "(", "id", " ", "INT",
                    ")", ";">>)>>

\* CREATE TABEL foo (...);
TabelDoc == <<TabelStmt("foo", <<ColDef("id", <<"INT">>, <<>>)>>)>>

GarbageDoc == <<Garbage(<<"@", "(">>)>>

SelectDoc == <<SelectStmt>>

\* users(id PK), posts(id PK, user_id -> users.id)
UsersPostsDoc ==
    << TableStmt("users", <<IdPk>>, <<>>),
       TableStmt("posts",
                 <<IdPk, ColDef("user_id", <<"INT">>, <<CRef("users", "id")>>)>>,
                 <<>>) >>

\* profiles(user_id PK and -> users.id)
ProfilesDoc ==
    << TableStmt("users", <<IdPk>>, <<>>),
       TableStmt("profiles",
                 <<ColDef("user_id", <<"INT">>, <<CPrimaryKey, CRef("users", "id")>>)>>,
                 <<>>) >>

\* posts, categories and their junction table, as in defaultSQL
JunctionDoc ==
    << TableStmt("posts", <<IdPk>>, <<>>),
       TableStmt("categories", <<IdPk>>, <<>>),
       TableStmt("post_categories",
                 << ColDef("post_id", <<"INTEGER">>, <<CRef("posts", "id")>>),
                    ColDef("category_id", <<"INTEGER">>, <<CRef("categories", "id")>>) >>,
                 <<"post_id", "category_id">>) >>

\* users(id PK), posts(user_id REFERENCES users): no referenced column
RefWithoutColumnDoc ==
    << TableStmt("users", <<IdPk>>, <<>>),
       TableStmt("posts", <<ColDef("user_id", <<"INT">>, <<CRef("users", "")>>)>>, <<>>) >>

ExampleDocs ==
    {DefaultDoc, EmptyDocument, WhitespaceDoc, CommentOnlyDoc, CommentedTableDoc,
     TabelDoc, GarbageDoc, SelectDoc, UsersPostsDoc, ProfilesDoc, JunctionDoc,
     RefWithoutColumnDoc}

TableNames == {"t1", "t2"}

GenCols ==
    { IdPk,
      ColDef("a", <<"INT">>, <<>>),
      ColDef("a", <<"INT">>, <<CRef("t1", "id")>>),
      ColDef("b", <<"INT">>, <<CRef("t2", "id")>>),
      ColDef("a", <<"INT">>, <<CPrimaryKey, CRef("t2", "id")>>),
      ColDef("b", <<"INT">>, <<CRef("t1", "")>>) }

ColLists(max) == UNION {[1..n -> GenCols] : n \in 0..max}

\* The documents of exactly k tables whose column lists, one after the
\* other, are the list cs.
RECURSIVE Splits(_, _)
Splits(cs, k) ==
    IF k = 0 THEN (IF cs = <<>> THEN {<<>>} ELSE {})
    ELSE UNION { { <<TableStmt(n, SubSeq(cs, 1, c), <<>>)>> \o rest :
                     n \in TableNames, rest \in Splits(SubSeq(cs, c + 1, Len(cs)), k - 1) } :
                 c \in 0..Len(cs) }

\* At most stmts tables holding at most cols columns together.
TableDocs(stmts, cols) ==
    UNION {Splits(cs, k) : cs \in ColLists(cols), k \in 0..stmts}

NoiseItems ==
    { CommentLine(<<"just", " ", "notes">>),
      CommentLine(<<"CREATE", " ", "TABLE", " ", "t2", " ", "(", "id", " ", "INT",
                    " ", "PRIMARY", " ", "KEY", ")", ";">>),
      CommentLine(<<"create", " ", "tabel", " ", "t1">>),
      CommentLine(<<"(">>),
      SelectStmt,
      Garbage(<<"@">>),
      Garbage(<<"@", "(">>),
      TabelStmt("t1", <<IdPk>>),
      TableStmt("t1", <<ColDef("id", <<"INT">>, <<CPrimryKey>>)>>, <<>>),
      TableStmt("t1", <<ColDef("a", <<"INT">>, <<CRefrences("t2", "id")>>)>>, <<>>),
      Garbage(<<"forign", " ", "key">>),
      Blank(<<"\n">>) }

NoiseDocs == UNION {[1..n -> NoiseItems] : n \in 0..MaxStmts}

MixedDocs ==
    UNION { {<<n>> \o d, d \o <<n>>} : n \in NoiseItems, d \in TableDocs(1, 1) }

Docs == TableDocs(MaxStmts, MaxCols) \cup NoiseDocs \cup MixedDocs \cup ExampleDocs

---------------------------------------------------------------------------
\* The App.

Next ==
    \/ Mount
    \/ \E doc \in ExampleDocs, e \in Envs : SetSqlCode(doc, e)
    \/ Tick
    \/ TimerFire
    \/ Execute
    \/ Export

Spec == Init /\ [][Next]_vars

\* What Mount does to phase.
Mounting == phase = "constructed" /\ phase' = "mounted"

\* What TimerFire does to timer: a due timeout leaves the pending ones.
TimeoutDue ==
    \E t \in timer.pending :
        /\ t.age >= DebounceMs
        /\ timer' = [timer EXCEPT !.pending = timer.pending \ {t}]

\* The App under the scheduling the browser and React give: the effects of
\* the first render run, time passes while a timeout is not due, and a due
\* timeout's callback runs.  The user's steps are under no obligation.
\* Fairness of Mount and of TimerFire is stated on the variable each of them
\* alone changes in that way: the steps of Next that satisfy Mounting are the
\* Mount steps and those that satisfy TimeoutDue are the TimerFire steps.
SpecFair ==
    Init /\ [][Next]_vars /\ WF_phase(Mounting) /\ WF_vars(Tick) /\ WF_timer(TimeoutDue)

---------------------------------------------------------------------------
\* The extractors and the orchestrator, called once each on every input.

NotCalled == Returned(ParseResult(<<>>, <<>>, <<>>))

InitExtract ==
    /\ typed \in Docs
    /\ env \in Envs
    /\ env = NormalEnv \/ typed \in ExampleDocs
    /\ sqlCode = Render(typed)
    /\ diagram = EmptyDiagram
    /\ sqlErrors = <<>>
    /\ isValidSQL = TRUE
    /\ timer = NoTimer
    /\ phase = "mounted"
    /\ lastCall = NoCall
    /\ download = NoDownload
    /\ probe = [step |-> 0, grammar |-> NotCalled, simple |-> NotCalled,
                first |-> ParseResult(<<>>, <<>>, <<>>),
                again |-> [grammar |-> NotCalled, simple |-> NotCalled],
                swapped |-> [doc |-> <<>>, grammar |-> NotCalled, simple |-> NotCalled]]

CallGrammar ==
    /\ probe.step = 0
    /\ probe' = [probe EXCEPT !.step = 1,
                              !.grammar = parseSQLToDiagram(sqlCode, typed, env.parser)]
    /\ UNCHANGED <<sqlCode, diagram, sqlErrors, isValidSQL, timer, phase, typed, env,
                   lastCall, download>>

CallHeuristic ==
    /\ probe.step = 1
    /\ probe' = [probe EXCEPT !.step = 2, !.simple = CallSimple(sqlCode, env.simple)]
    /\ UNCHANGED <<sqlCode, diagram, sqlErrors, isValidSQL, timer, phase, typed, env,
                   lastCall, download>>

CallUpdateDiagram ==
    /\ probe.step = 2
    /\ probe' = [probe EXCEPT !.step = 3]
    /\ Invoke(sqlCode, typed, env, "execute", DebounceMs)
    /\ UNCHANGED <<sqlCode, timer, phase, typed, env, download>>

\* The same three calls a second time on the same text; probe keeps what the
\* first call of updateDiagram had set.
CallAgain ==
    /\ probe.step = 3
    /\ probe' = [probe EXCEPT
                    !.step = 4,
                    !.first = [diagram |-> diagram, errors |-> sqlErrors,
                               isValid |-> isValidSQL],
                    !.again = [grammar |-> parseSQLToDiagram(sqlCode, typed, env.parser),
                               simple |-> CallSimple(sqlCode, env.simple)]]
    /\ Invoke(sqlCode, typed, env, "execute", DebounceMs)
    /\ UNCHANGED <<sqlCode, timer, phase, typed, env, download>>

\* Document doc with its i-th and j-th statements exchanged.
Swapped(doc, i, j) ==
    [k \in 1..Len(doc) |-> IF k = i THEN doc[j] ELSE IF k = j THEN doc[i] ELSE doc[k]]

\* The two extractors called on the text with two of its statements
\* exchanged.
CallSwapped ==
    /\ probe.step = 3
    /\ \E i, j \in 1..Len(typed) :
          /\ i < j
          /\ probe' = [probe EXCEPT
                          !.step = 5,
                          !.swapped =
                              [doc |-> Swapped(typed, i, j),
                               grammar |-> parseSQLToDiagram(
                                               Render(Swapped(typed, i, j)),
                                               Swapped(typed, i, j), env.parser),
                               simple |-> CallSimple(Render(Swapped(typed, i, j)),
                                                     env.simple)]]
    /\ UNCHANGED <<sqlCode, diagram, sqlErrors, isValidSQL, timer, phase, typed, env,
                   lastCall, download>>

NextExtract ==
    CallGrammar \/ CallHeuristic \/ CallUpdateDiagram \/ CallAgain \/ CallSwapped

SpecExtract == InitExtract /\ [][NextExtract]_vars

---------------------------------------------------------------------------
\* determineRelationshipType, called on table structures.

\* Columns of the table the foreign key is declared in.
MaxFromCols == 3
\* Columns of the referenced table.
MaxToCols == 1

Column(n, pk, fk) ==
    [name |-> n, type |-> "INT", nullable |-> ~pk, primaryKey |-> pk, foreignKey |-> fk]

FromColumns ==
    {Column(n, pk, fk) : n \in {"a", "b"}, pk \in BOOLEAN,
                         fk \in {Undefined, [table |-> "t", column |-> "a"]}}

ToColumns == {Column(n, pk, Undefined) : n \in {"a", "b"}, pk \in BOOLEAN}

TablesOf(n, C, max) ==
    {[name |-> n, columns |-> cs] : cs \in UNION {[1..k -> C] : k \in 0..max}}

UsersTable == [name |-> "users", columns |-> <<Column("id", TRUE, Undefined)>>]

PostsTable ==
    [name |-> "posts",
     columns |-> << Column("id", TRUE, Undefined),
                    Column("user_id", FALSE, [table |-> "users", column |-> "id"]) >>]

ProfilesTable ==
    [name |-> "profiles",
     columns |-> <<Column("user_id", TRUE, [table |-> "users", column |-> "id"])>>]

ClassifyCall(f, fc, t, tc) ==
    [step |-> 0, fromTable |-> f, fromColumn |-> fc, toTable |-> t, toColumn |-> tc,
     type |-> ""]

ClassifyInputs ==
    {ClassifyCall(f, fc, t, tc) :
        f \in TablesOf("f", FromColumns, MaxFromCols), fc \in {"a", "b"},
        t \in TablesOf("t", ToColumns, MaxToCols), tc \in {"a", "b"}}
    \cup {ClassifyCall(PostsTable, "user_id", UsersTable, "id"),
          ClassifyCall(ProfilesTable, "user_id", UsersTable, "id")}

InitClassify ==
    /\ probe \in ClassifyInputs
    /\ sqlCode = <<>>
    /\ typed = <<>>
    /\ env = NormalEnv
    /\ diagram = EmptyDiagram
    /\ sqlErrors = <<>>
    /\ isValidSQL = TRUE
    /\ timer = NoTimer
    /\ phase = "mounted"
    /\ lastCall = NoCall
    /\ download = NoDownload

Classify ==
    /\ probe.step = 0
    /\ probe' = [probe EXCEPT !.step = 1,
                              !.type = determineRelationshipType(
                                           probe.fromTable, probe.fromColumn,
                                           probe.toTable, probe.toColumn)]
    /\ UNCHANGED <<sqlCode, diagram, sqlErrors, isValidSQL, timer, phase, typed, env,
                   lastCall, download>>

NextClassify == Classify

SpecClassify == InitClassify /\ [][NextClassify]_vars

---------------------------------------------------------------------------
\* parseSimpleColumns, called once on the text between the parentheses of a
\* CREATE TABLE statement.  The text is a list of candidates separated by
\* commas; a candidate is a list of words separated by one whitespace lexeme.

\* The words a candidate has at most.
MaxParts == 4

\* The words of the candidates.
ColumnWords == {"a", "NOT", "null", "PRIMARY", "key", "UNIQUE", "CHECK_IN"}

Candidate(words, gap) == [words |-> words, gap |-> gap]

\* The candidates of at most n words, with one space between words.
CandidatesOf(n) ==
    {Candidate(w, " ") : w \in UNION {[1..k -> ColumnWords] : k \in 0..n}}

\* Candidates of a name, a type and one more word, with four spaces between
\* words.
SpacedCandidates == {Candidate(w, "    ") : w \in [1..3 -> ColumnWords]}

\* The text of a candidate.
RenderCandidate(c) ==
    [i \in 1..(IF c.words = <<>> THEN 0 ELSE 2 * Len(c.words) - 1) |->
        IF i % 2 = 1 THEN c.words[(i + 1) \div 2] ELSE c.gap]

ColumnsCall(cs, text) == [step |-> 0, candidates |-> cs, columnsText |-> text, columns |-> <<>>]

ColumnsInputs ==
    {ColumnsCall(<<c>>, <<"\n", "    ">> \o RenderCandidate(c) \o <<"\n">>) :
        c \in CandidatesOf(MaxParts) \cup SpacedCandidates}
    \cup {ColumnsCall(<<c, d>>, RenderCandidate(c) \o <<",", " ">> \o RenderCandidate(d)) :
             c \in CandidatesOf(MaxParts \div 2), d \in CandidatesOf(MaxParts \div 2)}

InitColumns ==
    /\ probe \in ColumnsInputs
    /\ sqlCode = <<>>
    /\ typed = <<>>
    /\ env = NormalEnv
    /\ diagram = EmptyDiagram
    /\ sqlErrors = <<>>
    /\ isValidSQL = TRUE
    /\ timer = NoTimer
    /\ phase = "mounted"
    /\ lastCall = NoCall
    /\ download = NoDownload

ParseColumns ==
    /\ probe.step = 0
    /\ probe' = [probe EXCEPT !.step = 1,
                              !.columns = parseSimpleColumns(probe.columnsText)]
    /\ UNCHANGED <<sqlCode, diagram, sqlErrors, isValidSQL, timer, phase, typed, env,
                   lastCall, download>>

NextColumns == ParseColumns

SpecColumns == InitColumns /\ [][NextColumns]_vars

---------------------------------------------------------------------------
\* parseErrorLocation, called once on a message.  A message is made of five
\* parts: a text before, an arrow, an origin, the numbers, and a text after.

MessageBefore ==
    { <<>>,
      <<"Syntax Error: Unexpected", " ", "x", "\n">>,
      <<"12", ":", "5", " ">> }

MessageArrow == { <<>>, <<"-->">>, <<"-->", " ">> }

MessageOrigin == { <<>>, <<"undefined", ":">>, <<":">>, <<"7", ":">> }

MessageNumbers == { <<"1", ":", "43">>, <<"1", ":">>, <<"1">>, <<>>, <<"x", ":", "2">> }

MessageAfter == { <<>>, <<"\n", "-->", " ", "3", ":", "4">> }

LocateCall(b, a, o, n, f) ==
    [step |-> 0, before |-> b, arrow |-> a, origin |-> o, numbers |-> n, after |-> f,
     errorMessage |-> b \o a \o o \o n \o f,
     location |-> [line |-> 0, column |-> 0, cleanMessage |-> <<>>]]

LocateInputs ==
    {LocateCall(b, a, o, n, f) :
        b \in MessageBefore, a \in MessageArrow, o \in MessageOrigin,
        n \in MessageNumbers, f \in MessageAfter}

InitLocate ==
    /\ probe \in LocateInputs
    /\ sqlCode = <<>>
    /\ typed = <<>>
    /\ env = NormalEnv
    /\ diagram = EmptyDiagram
    /\ sqlErrors = <<>>
    /\ isValidSQL = TRUE
    /\ timer = NoTimer
    /\ phase = "mounted"
    /\ lastCall = NoCall
    /\ download = NoDownload

Locate ==
    /\ probe.step = 0
    /\ probe' = [probe EXCEPT !.step = 1,
                              !.location = parseErrorLocation(probe.errorMessage)]
    /\ UNCHANGED <<sqlCode, diagram, sqlErrors, isValidSQL, timer, phase, typed, env,
                   lastCall, download>>

NextLocate == Locate

SpecLocate == InitLocate /\ [][NextLocate]_vars

---------------------------------------------------------------------------
\* Properties of the orchestrator, over SpecExtract: at probe.step = 3 the
\* grammar extractor, the heuristic extractor and updateDiagram have each
\* been called once on the input; probe holds what the two extractors
\* returned.

\* The state updateDiagram sets.
Final == [diagram |-> diagram, errors |-> sqlErrors, isValid |-> isValidSQL]

\* The grammar extractor returned, and reported the parser's syntax error.
GrammarRejected == ~probe.grammar.threw /\ ~probe.grammar.result.isValid

\* The grammar extractor returned a valid result.
GrammarAccepted == ~probe.grammar.threw /\ probe.grammar.result.isValid

HasWarning(errors, message) ==
    \E i \in 1..Len(errors) :
        errors[i].message = <<message>> /\ errors[i].severity = "warning"

\* C1 (totality): whatever the input, and whether each of parseSQLToDiagram
\* and parseSimpleSQL throws or returns, updateDiagram ends without an
\* exception leaving it and has set diagram, errors and isValid together, from
\* one complete result: the empty result, an extractor's result, or the
\* critical-error result.
C1_Totality ==
    probe.step = 3 =>
        /\ ~lastCall.threw
        /\ lastCall.source \in {"empty", "grammar", "simple", "critical"}
        /\ lastCall.source = "empty" => Final = ParseResult(<<>>, <<>>, <<>>)
        /\ lastCall.source = "grammar" => Final = probe.grammar.result
        /\ lastCall.source = "simple" => Final = probe.simple.result
        /\ lastCall.source = "critical" => Final = CriticalResult

\* Both extractors threw, and updateDiagram set the critical-error result.
C1_Witness ==
    /\ probe.step = 3
    /\ probe.grammar.threw
    /\ probe.simple.threw
    /\ lastCall.source = "critical"
    /\ Final = CriticalResult

\* C2, as the code has it: when the grammar parser throws a syntax error on
\* malformed SQL, parseSQLToDiagram catches it and returns an invalid result,
\* and updateDiagram's final result is that result: no table, exactly one
\* diagnostic, of severity error, isValid false; parseSimpleSQL is not called.
\* Only when parseSQLToDiagram itself throws is the final result the one of
\* parseSimpleSQL.
C2_SyntaxErrorKeepsGrammarResult ==
    /\ probe.step = 3 /\ GrammarRejected =>
            /\ Final = probe.grammar.result
            /\ lastCall.simpleCalls = 0
            /\ diagram.tables = <<>>
            /\ Len(sqlErrors) = 1
            /\ sqlErrors[1].severity = "error"
            /\ ~isValidSQL
    /\ probe.step = 3 /\ probe.grammar.threw /\ ~probe.simple.threw =>
            Final = probe.simple.result

\* CREATE TABEL foo (...): the final result is the grammar extractor's, though
\* the heuristic extractor, called on its own, gives the typo warning.
C2_Witness ==
    /\ probe.step = 3
    /\ typed = TabelDoc
    /\ env = NormalEnv
    /\ GrammarRejected
    /\ HasWarning(probe.simple.result.errors, "Did you mean CREATE TABLE?")
    /\ Final = probe.grammar.result

\* C2 as stated: when the grammar parser fails on malformed SQL the final
\* result is the heuristic extractor's result, so for CREATE TABEL foo (...)
\* the errors hold the warning 'Did you mean CREATE TABLE?'.
C2_Original ==
    probe.step = 3 /\ GrammarRejected /\ env = NormalEnv =>
        /\ Final = probe.simple.result
        /\ typed = TabelDoc => HasWarning(sqlErrors, "Did you mean CREATE TABLE?")

\* The document holds no CREATE TABLE statement.
NoCreateTable(doc) == \A i \in 1..Len(doc) : doc[i].k # "table"

\* C3 as stated: when the grammar extractor accepts the input and the input
\* holds no CREATE TABLE statement (only comments, say, whatever they
\* contain), the final result has no table and isValid true.
C3_Original ==
    probe.step = 3 /\ GrammarAccepted /\ NoCreateTable(typed) /\ env = NormalEnv =>
        /\ diagram.tables = <<>>
        /\ isValidSQL

\* C5 as stated: a result of parseSimpleSQL has isValid true exactly when
\* none of its diagnostics has severity error.
C5_Original ==
    probe.step >= 2 /\ ~probe.simple.threw =>
        (probe.simple.result.isValid <=>
            \A i \in 1..Len(probe.simple.result.errors) :
                probe.simple.result.errors[i].severity # "error")

---------------------------------------------------------------------------
\* Properties of the App, over Spec.

\* C4 as stated: updateDiagram runs on a text set by a change only once the
\* debounce window of 500 ms has passed with that text still current.
C4_Original ==
    lastCall.trigger \in {"effect", "timer"} /\ sqlCode # defaultSQL =>
        lastCall.elapsed >= DebounceMs

---------------------------------------------------------------------------
\* Properties of determineRelationshipType, over SpecClassify.

\* The first column of table t named n is a primary key.
NamedIsPrimaryKey(t, n) ==
    \E i \in 1..Len(t.columns) :
        /\ t.columns[i].name = n
        /\ t.columns[i].primaryKey
        /\ \A j \in 1..(i - 1) : t.columns[j].name # n

\* Every column of t is a primary key or carries a foreign key, and two of
\* them at least carry a foreign key.
LooksLikeJunction(t) ==
    /\ \A i \in 1..Len(t.columns) : t.columns[i].primaryKey \/ HasFK(t.columns[i])
    /\ \E i, j \in 1..Len(t.columns) :
            i # j /\ HasFK(t.columns[i]) /\ HasFK(t.columns[j])

\* C6 (classifier): the type is one-to-one if the column named fromColumn of
\* fromTable is a primary key; otherwise many-to-many if the column named
\* toColumn of toTable is a primary key and fromTable is a junction table;
\* otherwise many-to-one, also when a column is not found.  posts.user_id ->
\* users.id is many-to-one, profiles.user_id -> users.id is one-to-one.
C6_Classifier ==
    probe.step = 1 =>
        /\ probe.type =
              IF NamedIsPrimaryKey(probe.fromTable, probe.fromColumn)
              THEN "one-to-one"
              ELSE IF /\ NamedIsPrimaryKey(probe.toTable, probe.toColumn)
                      /\ LooksLikeJunction(probe.fromTable)
              THEN "many-to-many"
              ELSE "many-to-one"
        /\ probe.fromTable = PostsTable => probe.type = "many-to-one"
        /\ probe.fromTable = ProfilesTable => probe.type = "one-to-one"

\* A junction table's foreign key to a primary key was classified.
C6_Witness ==
    /\ probe.step = 1
    /\ probe.type = "many-to-many"
    /\ LooksLikeJunction(probe.fromTable)
    /\ ~NamedIsPrimaryKey(probe.fromTable, probe.fromColumn)

---------------------------------------------------------------------------
\* Properties of the diagrams, over SpecExtract.

\* The relationships of diagram d that leave table n.
Leaving(d, n) == {i \in 1..Len(d.relationships) : d.relationships[i].from.table = n}

\* In diagram d the table post_categories has the two columns post_id and
\* category_id and nothing else, and the two relationships leaving it are
\* many-to-many.
JunctionExtracted(d) ==
    LET t == FindByName(d.tables, "post_categories")
    IN  /\ t # <<>>
        /\ Len(t[1].columns) = 2
        /\ t[1].columns[1].name = "post_id"
        /\ t[1].columns[2].name = "category_id"
        /\ Cardinality(Leaving(d, "post_categories")) = 2
        /\ \A i \in Leaving(d, "post_categories") :
                d.relationships[i].type = "many-to-many"

\* C7 (junction, end to end): for post_categories(post_id REFERENCES posts(id),
\* category_id REFERENCES categories(id), PRIMARY KEY (post_id, category_id))
\* with posts(id PK) and categories(id PK), either extractor and
\* updateDiagram give many-to-many for both relationships leaving
\* post_categories, and the PRIMARY KEY entry adds no column.
C7_JunctionEndToEnd ==
    probe.step = 3 /\ typed \in {JunctionDoc, DefaultDoc} /\ env = NormalEnv =>
        /\ JunctionExtracted(probe.grammar.result.diagram)
        /\ JunctionExtracted(probe.simple.result.diagram)
        /\ JunctionExtracted(diagram)

C7_Witness ==
    /\ probe.step = 3
    /\ typed = JunctionDoc
    /\ env = NormalEnv
    /\ JunctionExtracted(probe.simple.result.diagram)
    /\ JunctionExtracted(diagram)

\* Relationship i of diagram d names a column of a table of d whose
\* foreignKey is the relationship's target.
DerivedFromColumn(d, i) ==
    LET r == d.relationships[i]
    IN  \E t \in 1..Len(d.tables) :
            /\ d.tables[t].name = r.from.table
            /\ \E c \in 1..Len(d.tables[t].columns) :
                    /\ d.tables[t].columns[c].name = r.from.column
                    /\ d.tables[t].columns[c].foreignKey = r.to

Derivable(d) == \A i \in 1..Len(d.relationships) : DerivedFromColumn(d, i)

\* C8 (derivability): in every diagram either extractor returns or
\* updateDiagram sets, each relationship's (from.table, from.column) names a
\* column of a table of the diagram whose foreignKey equals the relationship's
\* (to.table, to.column).
C8_Derivability ==
    probe.step = 3 =>
        /\ Derivable(probe.grammar.result.diagram)
        /\ Derivable(probe.simple.result.diagram)
        /\ Derivable(diagram)

C8_Witness ==
    /\ probe.step = 3
    /\ Len(probe.grammar.result.diagram.relationships) >= 2
    /\ Len(probe.simple.result.diagram.relationships) >= 2
    /\ Len(diagram.relationships) >= 2

\* The columns of diagram d, as <<table index, column index>>, that carry a
\* foreign key whose referenced table is the name of a table of d.
ResolvableKeys(d) ==
    {p \in UNION {{<<t, c>> : c \in 1..Len(d.tables[t].columns)} :
                    t \in 1..Len(d.tables)} :
        /\ HasFK(d.tables[p[1]].columns[p[2]])
        /\ \E u \in 1..Len(d.tables) :
                d.tables[u].name = d.tables[p[1]].columns[p[2]].foreignKey.table}

\* The relationship the column at p gives rise to, but for its type.
EndsOf(d, p) ==
    [from |-> [table |-> d.tables[p[1]].name,
               column |-> d.tables[p[1]].columns[p[2]].name],
     to |-> d.tables[p[1]].columns[p[2]].foreignKey]

\* As many relationships of d have the ends of the column at p as d has
\* columns with these ends: one relationship for each such column.
OnePerKey(d, p) ==
    Cardinality({i \in 1..Len(d.relationships) :
                    /\ d.relationships[i].from = EndsOf(d, p).from
                    /\ d.relationships[i].to = EndsOf(d, p).to})
        = Cardinality({q \in ResolvableKeys(d) : EndsOf(d, q) = EndsOf(d, p)})

Complete(d) == \A p \in ResolvableKeys(d) : OnePerKey(d, p)

\* C9 (completeness): in every diagram returned or set, each column that
\* carries a foreign key to a table of the diagram gives rise to exactly one
\* relationship: none is missing and none is there twice.
C9_Completeness ==
    probe.step = 3 =>
        /\ Complete(probe.grammar.result.diagram)
        /\ Complete(probe.simple.result.diagram)
        /\ Complete(diagram)

\* A table with two resolvable foreign keys went through both extractors.
C9_Witness ==
    /\ probe.step = 3
    /\ \E p, q \in ResolvableKeys(probe.simple.result.diagram) :
            p[1] = q[1] /\ p[2] # q[2]
    /\ Cardinality(ResolvableKeys(probe.grammar.result.diagram)) >= 2
    /\ Cardinality(ResolvableKeys(diagram)) >= 2

\* C10 (no override): when the grammar extractor returns at least one table,
\* the state updateDiagram sets is exactly the grammar extractor's result and
\* parseSimpleSQL is not called.
C10_NoOverride ==
    probe.step = 3 /\ ~probe.grammar.threw
                   /\ Len(probe.grammar.result.diagram.tables) > 0 =>
        /\ Final = probe.grammar.result
        /\ lastCall.simpleCalls = 0
        /\ lastCall.source = "grammar"

\* The grammar extractor found a table and the heuristic extractor, called on
\* its own, gives another result; the grammar extractor's is the final one.
C10_Witness ==
    /\ probe.step = 3
    /\ ~probe.grammar.threw
    /\ Len(probe.grammar.result.diagram.tables) > 0
    /\ ~probe.simple.threw
    /\ probe.simple.result # probe.grammar.result
    /\ Final = probe.grammar.result

---------------------------------------------------------------------------
\* Properties of the grammar extractor, over SpecExtract.

\* The grammar extractor returned a result that reports a failure.
GrammarReportsFailure ==
    /\ probe.step >= 1
    /\ ~probe.grammar.threw
    /\ (probe.grammar.result.errors # <<>> \/ ~probe.grammar.result.isValid)

\* C11 (all or nothing): a result of parseSQLToDiagram that reports a failure
\* has no table, no relationship, exactly one diagnostic, of severity error,
\* and isValid false; tables are never returned together with an error.
C11_AllOrNothing ==
    GrammarReportsFailure =>
        /\ probe.grammar.result.diagram.tables = <<>>
        /\ probe.grammar.result.diagram.relationships = <<>>
        /\ Len(probe.grammar.result.errors) = 1
        /\ probe.grammar.result.errors[1].severity = "error"
        /\ ~probe.grammar.result.isValid

\* The text holds a well-formed CREATE TABLE statement and malformed text;
\* the result reports the failure and no table.
C11_Witness ==
    /\ GrammarReportsFailure
    /\ \E i \in 1..Len(typed) : typed[i].k = "table" /\ typed[i].cols # <<>>
    /\ \E i \in 1..Len(typed) : typed[i].k = "garbage"
    /\ probe.grammar.result.diagram.tables = <<>>

---------------------------------------------------------------------------
\* Properties of updateDiagram's catch block, over SpecExtract.

\* C12 (catastrophic failure): when parseSQLToDiagram throws, the state
\* updateDiagram sets is exactly the result of parseSimpleSQL; when
\* parseSimpleSQL throws as well, it is the empty diagram, the one diagnostic
\* 'Critical parsing error' of severity error at line 1, column 1, and
\* isValid false.
C12_CatastrophicProtocol ==
    probe.step = 3 /\ probe.grammar.threw =>
        IF probe.simple.threw
        THEN /\ diagram = [tables |-> <<>>, relationships |-> <<>>]
             /\ sqlErrors = << [message |-> <<"Critical parsing error">>,
                                line |-> 1, column |-> 1, severity |-> "error"] >>
             /\ isValidSQL = FALSE
        ELSE /\ diagram = probe.simple.result.diagram
             /\ sqlErrors = probe.simple.result.errors
             /\ isValidSQL = probe.simple.result.isValid

\* parseSQLToDiagram threw on a text with tables; the tables of
\* parseSimpleSQL are the final ones.
C12_Witness ==
    /\ probe.step = 3
    /\ probe.grammar.threw
    /\ ~probe.simple.threw
    /\ Len(probe.simple.result.diagram.tables) > 0
    /\ diagram = probe.simple.result.diagram

---------------------------------------------------------------------------
\* Properties on the empty text, over SpecExtract.

\* The result with no table, no relationship, no diagnostic, isValid true.
EmptyValid(r) ==
    /\ r.diagram.tables = <<>>
    /\ r.diagram.relationships = <<>>
    /\ r.errors = <<>>
    /\ r.isValid = TRUE

\* C13 (empty input): for an empty or whitespace-only text both extractors
\* return no table, no relationship, no diagnostic and isValid true, and
\* updateDiagram sets the same without calling an extractor.
C13_EmptyInput ==
    probe.step = 3 /\ Trim(sqlCode) = <<>> =>
        /\ ~probe.grammar.threw
        /\ EmptyValid(probe.grammar.result)
        /\ env.simple = "normal" =>
                ~probe.simple.threw /\ EmptyValid(probe.simple.result)
        /\ EmptyValid(Final)
        /\ lastCall.source = "empty"
        /\ lastCall.simpleCalls = 0

\* A text of whitespace only went through the extractors and updateDiagram.
C13_Witness ==
    /\ probe.step = 3
    /\ sqlCode # <<>>
    /\ Trim(sqlCode) = <<>>
    /\ env.simple = "normal"
    /\ lastCall.source = "empty"

---------------------------------------------------------------------------
\* Properties of the heuristic extractor, over SpecExtract.

\* parseSimpleSQL was called on the text and returned.
HeuristicReturned == probe.step >= 2 /\ ~probe.simple.threw

\* The text has as many "(" as ")".
Balanced(s) ==
    Cardinality({i \in 1..Len(s) : s[i] = "("})
        = Cardinality({i \in 1..Len(s) : s[i] = ")"})

\* C14 (parenthesis imbalance): when the numbers of "(" and ")" in the text
\* differ, the result of parseSimpleSQL holds the diagnostic 'Unmatched
\* parentheses in SQL' of severity error at line 1, column 1, and isValid
\* false, and the table of every CREATE TABLE statement of the text is in
\* its diagram all the same.
C14_ParenImbalance ==
    HeuristicReturned /\ ~Balanced(sqlCode) =>
        /\ \E i \in 1..Len(probe.simple.result.errors) :
                probe.simple.result.errors[i] =
                    [message |-> <<"Unmatched parentheses in SQL">>,
                     line |-> 1, column |-> 1, severity |-> "error"]
        /\ ~probe.simple.result.isValid
        /\ \A i \in 1..Len(typed) :
                typed[i].k = "table" =>
                    \E t \in 1..Len(probe.simple.result.diagram.tables) :
                        /\ probe.simple.result.diagram.tables[t].name = typed[i].name
                        /\ Len(probe.simple.result.diagram.tables[t].columns)
                                = Len(typed[i].cols)

\* An unbalanced text with a CREATE TABLE statement that has a column.
C14_Witness ==
    /\ HeuristicReturned
    /\ ~Balanced(sqlCode)
    /\ \E i \in 1..Len(typed) : typed[i].k = "table" /\ typed[i].cols # <<>>
    /\ Len(probe.simple.result.diagram.tables) > 0

---------------------------------------------------------------------------
\* Properties of the foreign keys, over SpecExtract.

\* The CREATE TABLE statements of a document, in order.
TableItems(doc) ==
    LET IsTable(it) == it.k = "table" IN SelectSeq(doc, IsTable)

\* The REFERENCES constraints of column c of a document.
ReferencesOf(c) ==
    {c.cons[k] : k \in {k \in 1..Len(c.cons) : c.cons[k].k \in {"ref", "refcascade"}}}

\* Diagram d has a table named n.
HasTable(d, n) == \E t \in 1..Len(d.tables) : d.tables[t].name = n

\* The grammar extractor's result has a table per CREATE TABLE statement and
\* a column per column definition, in the order of the text.
GrammarFollowsText ==
    /\ Len(probe.grammar.result.diagram.tables) = Len(TableItems(typed))
    /\ \A i \in 1..Len(TableItems(typed)) :
            /\ probe.grammar.result.diagram.tables[i].name = TableItems(typed)[i].name
            /\ Len(probe.grammar.result.diagram.tables[i].columns)
                    = Len(TableItems(typed)[i].cols)

\* C15 (existence filter): in a result of the grammar extractor every
\* relationship's to.table is the name of a table of the diagram; a column
\* that references a table not in the diagram keeps its foreignKey and gives
\* no relationship.
C15_ExistenceFilter ==
    probe.step >= 1 /\ GrammarAccepted =>
        LET d == probe.grammar.result.diagram
        IN  /\ \A r \in 1..Len(d.relationships) :
                    HasTable(d, d.relationships[r].to.table)
            /\ GrammarFollowsText
            /\ \A i \in 1..Len(TableItems(typed)) :
                 \A j \in 1..Len(TableItems(typed)[i].cols) :
                   \A ref \in ReferencesOf(TableItems(typed)[i].cols[j]) :
                        /\ d.tables[i].columns[j].foreignKey.table = ref.table
                        /\ ~HasTable(d, ref.table) =>
                              \A r \in 1..Len(d.relationships) :
                                d.relationships[r].to.table # ref.table

\* A column references a table that the text does not create: the column has
\* its foreignKey, the diagram has no relationship.
C15_Witness ==
    /\ probe.step >= 1
    /\ GrammarAccepted
    /\ \E i \in 1..Len(probe.grammar.result.diagram.tables) :
         \E j \in 1..Len(probe.grammar.result.diagram.tables[i].columns) :
            /\ HasFK(probe.grammar.result.diagram.tables[i].columns[j])
            /\ ~HasTable(probe.grammar.result.diagram,
                         probe.grammar.result.diagram.tables[i].columns[j].foreignKey.table)
    /\ probe.grammar.result.diagram.relationships = <<>>

\* The columns of diagram d, as <<table index, column index>>, that carry a
\* foreign key.
ForeignKeys(d) ==
    {p \in UNION {{<<t, c>> : c \in 1..Len(d.tables[t].columns)} :
                    t \in 1..Len(d.tables)} :
        HasFK(d.tables[p[1]].columns[p[2]])}

\* As many relationships of d have the ends of the foreign key at p as d has
\* foreign keys with these ends.
OnePerForeignKey(d, p) ==
    Cardinality({i \in 1..Len(d.relationships) :
                    /\ d.relationships[i].from = EndsOf(d, p).from
                    /\ d.relationships[i].to = EndsOf(d, p).to})
        = Cardinality({q \in ForeignKeys(d) : EndsOf(d, q) = EndsOf(d, p)})

\* C16 (dangling references): the heuristic extractor gives one relationship
\* for every foreign key it found, whether the referenced table is among its
\* tables or not, and a relationship whose referenced table is not among them
\* has type many-to-one, also when its own column is a primary key.
C16_DanglingReferences ==
    HeuristicReturned =>
        LET d == probe.simple.result.diagram
        IN  /\ \A p \in ForeignKeys(d) : OnePerForeignKey(d, p)
            /\ \A r \in 1..Len(d.relationships) :
                    ~HasTable(d, d.relationships[r].to.table) =>
                        d.relationships[r].type = "many-to-one"

\* A primary-key column that references a table the text does not create
\* has its relationship, of type many-to-one.
C16_Witness ==
    /\ HeuristicReturned
    /\ \E p \in ForeignKeys(probe.simple.result.diagram) :
            /\ probe.simple.result.diagram.tables[p[1]].columns[p[2]].primaryKey
            /\ ~HasTable(probe.simple.result.diagram,
                         EndsOf(probe.simple.result.diagram, p).to.table)
            /\ \E r \in 1..Len(probe.simple.result.diagram.relationships) :
                    /\ probe.simple.result.diagram.relationships[r].from
                            = EndsOf(probe.simple.result.diagram, p).from
                    /\ probe.simple.result.diagram.relationships[r].type = "many-to-one"

---------------------------------------------------------------------------
\* Properties of repeated calls, over SpecExtract: at probe.step = 4 the
\* three calls have been made a second time on the same text.

---------------------------------------------------------------------------
\* Properties of the columns, over SpecExtract.

\* Every primary-key column of diagram d is not nullable.
KeysNotNull(d) ==
    \A t \in 1..Len(d.tables) :
        \A c \in 1..Len(d.tables[t].columns) :
            d.tables[t].columns[c].primaryKey => ~d.tables[t].columns[c].nullable

\* Column c of a document is written with NOT NULL or PRIMARY KEY.
Marked(c) == \E k \in 1..Len(c.cons) : c.cons[k].k \in {"notnull", "pk"}

\* The words NOT NULL or PRIMARY KEY follow the word cname in the lexemes b.
MarkedIn(b, cname) ==
    \E i, j \in 1..Len(b) :
        /\ b[i] = cname
        /\ i < j
        /\ j + 2 <= Len(b)
        /\ <<b[j], b[j + 1], b[j + 2]>> \in
                {<<"NOT", " ", "NULL">>, <<"PRIMARY", " ", "KEY">>}

\* The document writes a NOT NULL or PRIMARY KEY marker on a column cname of
\* a table n, in a CREATE TABLE statement or in a commented one.
MarkerWritten(doc, n, cname) ==
    \E i \in 1..Len(doc) :
        \/ /\ doc[i].k = "table"
           /\ doc[i].name = n
           /\ \E j \in 1..Len(doc[i].cols) :
                    doc[i].cols[j].name = cname /\ Marked(doc[i].cols[j])
        \/ /\ doc[i].k = "comment"
           /\ MarkedIn(doc[i].body, cname)

\* C18 (primary key implies not null): in every column either extractor
\* returns, primaryKey implies nullable false, and nullable is false only if
\* a NOT NULL or PRIMARY KEY marker is written on that column.
C18_PrimaryKeyNotNull ==
    /\ probe.step >= 1 /\ GrammarAccepted =>
            /\ KeysNotNull(probe.grammar.result.diagram)
            /\ GrammarFollowsText
            /\ \A i \in 1..Len(TableItems(typed)) :
                 \A j \in 1..Len(TableItems(typed)[i].cols) :
                    ~probe.grammar.result.diagram.tables[i].columns[j].nullable
                        => Marked(TableItems(typed)[i].cols[j])
    /\ HeuristicReturned =>
            /\ KeysNotNull(probe.simple.result.diagram)
            /\ \A t \in 1..Len(probe.simple.result.diagram.tables) :
                 \A c \in 1..Len(probe.simple.result.diagram.tables[t].columns) :
                    ~probe.simple.result.diagram.tables[t].columns[c].nullable
                        => MarkerWritten(typed,
                               probe.simple.result.diagram.tables[t].name,
                               probe.simple.result.diagram.tables[t].columns[c].name)

\* Both extractors returned a primary-key column that is written without
\* NOT NULL, and a nullable column next to it.
C18_Witness ==
    /\ HeuristicReturned
    /\ GrammarAccepted
    /\ \E i \in 1..Len(TableItems(typed)) :
         \E j, k \in 1..Len(TableItems(typed)[i].cols) :
            /\ TableItems(typed)[i].cols[j].cons = <<CPrimaryKey>>
            /\ probe.grammar.result.diagram.tables[i].columns[j].primaryKey
            /\ ~probe.grammar.result.diagram.tables[i].columns[j].nullable
            /\ probe.grammar.result.diagram.tables[i].columns[k].nullable
    /\ \E t \in 1..Len(probe.simple.result.diagram.tables) :
         \E c \in 1..Len(probe.simple.result.diagram.tables[t].columns) :
            /\ probe.simple.result.diagram.tables[t].columns[c].primaryKey
            /\ ~probe.simple.result.diagram.tables[t].columns[c].nullable

\* The foreignKey the REFERENCES constraint ref stands for: its table, and
\* its column or "id" when it lists none.
Referenced(ref) ==
    [table |-> ref.table, column |-> IF ref.column = "" THEN "id" ELSE ref.column]

\* Every column of diagram d that the text writes with a REFERENCES
\* constraint has the foreignKey the constraint stands for; d has a table
\* per CREATE TABLE statement and a column per column definition.
ForeignKeysAsWritten(d) ==
    /\ Len(d.tables) = Len(TableItems(typed))
    /\ \A i \in 1..Len(TableItems(typed)) :
            /\ Len(d.tables[i].columns) = Len(TableItems(typed)[i].cols)
            /\ \A j \in 1..Len(TableItems(typed)[i].cols) :
                 \A ref \in ReferencesOf(TableItems(typed)[i].cols[j]) :
                    d.tables[i].columns[j].foreignKey = Referenced(ref)

\* The text is made of CREATE TABLE statements only.
OnlyTables(doc) == \A i \in 1..Len(doc) : doc[i].k = "table"

\* C19 as stated: in both extractors a column with a REFERENCES constraint
\* that names a table gets a foreignKey for that table, its column being
\* "id" when the constraint lists no column (REFERENCES users).
C19_Original ==
    probe.step >= 2 /\ env = NormalEnv /\ OnlyTables(typed) /\ GrammarAccepted =>
        /\ ForeignKeysAsWritten(probe.grammar.result.diagram)
        /\ ForeignKeysAsWritten(probe.simple.result.diagram)

---------------------------------------------------------------------------
\* Properties of the Export button, over Spec.

\* C20 (export disabled for invalid SQL): a step in which a file is handed to
\* the browser starts in a state whose stored isValid is true; while it is
\* false, pressing Export gives no download.
C20_ExportOnlyWhenValid ==
    [][download'.count # download.count => isValidSQL]_vars

\* Export was pressed while the stored isValid was false: no file so far.
C20_Witness ==
    /\ ~isValidSQL
    /\ download.last = "ignored"
    /\ download.count = 0

---------------------------------------------------------------------------
\* Properties of the zero-table rule, over SpecExtract.

\* C21 (zero-table preference): when the grammar extractor returns no table
\* and isValid true on a text that is not empty, updateDiagram calls
\* parseSimpleSQL once; what it sets is the heuristic result if and only if
\* that result has a table, and otherwise the grammar result (empty diagram,
\* no diagnostic, valid), the heuristic extractor's diagnostics being dropped.
C21_ZeroTablePreference ==
    probe.step = 3 /\ Trim(sqlCode) # <<>> /\ GrammarAccepted
                   /\ probe.grammar.result.diagram.tables = <<>>
                   /\ ~probe.simple.threw =>
        /\ lastCall.simpleCalls = 1
        /\ lastCall.source = "simple"
                <=> Len(probe.simple.result.diagram.tables) > 0
        /\ Len(probe.simple.result.diagram.tables) > 0 =>
                Final = probe.simple.result
        /\ Len(probe.simple.result.diagram.tables) = 0 =>
                /\ Final = probe.grammar.result
                /\ EmptyValid(Final)

\* The heuristic extractor found no table but has a diagnostic; the final
\* result is the grammar extractor's and has none.
C21_Witness ==
    /\ probe.step = 3
    /\ GrammarAccepted
    /\ probe.grammar.result.diagram.tables = <<>>
    /\ ~probe.simple.threw
    /\ probe.simple.result.diagram.tables = <<>>
    /\ probe.simple.result.errors # <<>>
    /\ lastCall.simpleCalls = 1
    /\ sqlErrors = <<>>

---------------------------------------------------------------------------
\* Properties of the debounce timer, over Spec.

\* C22 (timer supersession): at most one timeout is pending; a pending
\* timeout is the one set by the last run of the debounce effect and carries
\* the current text, so a timeout of an earlier text, cleared at the change,
\* is never there to fire; and a step in which a timeout's callback runs
\* starts with that one timeout pending and leaves none.
C22_TimerSupersession ==
    [][ /\ Cardinality(timer.pending) <= 1
        /\ \A t \in timer.pending : t.id = timer.timeoutId /\ t.code = sqlCode
        /\ lastCall'.trigger = "timer" /\ timer' # timer =>
              /\ \E t \in timer.pending : t.code = sqlCode /\ t.age >= DebounceMs
              /\ timer'.pending = {} ]_vars

\* After a change of the text, half-way through the delay: one timeout is
\* pending and it is the new text's.
C22_Witness ==
    /\ phase = "mounted"
    /\ sqlCode # defaultSQL
    /\ lastCall.trigger = "effect"
    /\ Cardinality(timer.pending) = 1
    /\ \E t \in timer.pending : t.age = TickMs /\ t.code = sqlCode

---------------------------------------------------------------------------
\* Properties of the typo diagnostics, over SpecExtract.

\* The four misspellings: a first word and, where there is one, the word
\* that follows it after whitespace.
TypoPatterns ==
    { [first |-> "CREATE", second |-> "TABEL", message |-> "Did you mean CREATE TABLE?"],
      [first |-> "PRIMRY", second |-> "KEY", message |-> "Did you mean PRIMARY KEY?"],
      [first |-> "REFRENCES", second |-> "", message |-> "Did you mean REFERENCES?"],
      [first |-> "FORIGN", second |-> "KEY", message |-> "Did you mean FOREIGN KEY?"] }

\* The places of the text where misspelling p is written, in any case.
Occurrences(s, p) ==
    { i \in 1..Len(s) :
        /\ Upper(s[i]) = p.first
        /\ p.second # "" =>
              \E j \in (i + 2)..Len(s) :
                  /\ Upper(s[j]) = p.second
                  /\ \A k \in (i + 1)..(j - 1) : s[k] \in WS }

\* The warnings of a result that carry message m.
WarningsOf(errors, m) ==
    { i \in 1..Len(errors) : errors[i].message = <<m>> /\ errors[i].severity = "warning" }

\* 1 + the number of line breaks before place i.
LineBreaksBefore(s, i) == Cardinality({j \in 1..(i - 1) : s[j] = "\n"})

\* The characters between the last line break before place i and place i.
CharactersBefore(s, i) ==
    LET start == CHOOSE a \in 1..i :
                     /\ a = 1 \/ s[a - 1] = "\n"
                     /\ \A k \in a..(i - 1) : s[k] # "\n"
    IN  CharLen(s, start, i - 1)

\* C23 (typo diagnostics): of the four misspellings, one that is written in
\* the text gets exactly one warning from parseSimpleSQL, placed at its first
\* occurrence: the line is 1 + the line breaks before it, the column 1 + the
\* characters since the last line break; one that is not written gets none.
C23_TypoDiagnostics ==
    HeuristicReturned /\ Trim(sqlCode) # <<>> =>
        \A p \in TypoPatterns :
            LET O == Occurrences(sqlCode, p)
                W == WarningsOf(probe.simple.result.errors, p.message)
            IN  IF O = {} THEN W = {}
                ELSE /\ Cardinality(W) = 1
                     /\ \A i \in W :
                          /\ probe.simple.result.errors[i].line
                                = 1 + LineBreaksBefore(sqlCode, Min(O))
                          /\ probe.simple.result.errors[i].column
                                = 1 + CharactersBefore(sqlCode, Min(O))

\* A misspelling written twice, first after a line break and not at the
\* start of its line.
C23_Witness ==
    /\ HeuristicReturned
    /\ \E p \in TypoPatterns :
          /\ Cardinality(Occurrences(sqlCode, p)) = 2
          /\ \E i \in WarningsOf(probe.simple.result.errors, p.message) :
                /\ probe.simple.result.errors[i].line > 1
                /\ probe.simple.result.errors[i].column > 1

---------------------------------------------------------------------------
\* Properties of parseSimpleColumns, over SpecColumns.

\* A candidate whose text begins with one of the keywords PRIMARY KEY,
\* FOREIGN KEY, UNIQUE, CHECK, CONSTRAINT, in any case.
BeginsWithConstraint(c) ==
    /\ c.words # <<>>
    /\ \/ c.words[1] \in {"UNIQUE", "CHECK_IN"}
       \/ /\ c.words[1] \in {"PRIMARY", "FOREIGN"}
          /\ Len(c.words) >= 2
          /\ c.words[2] \in {"KEY", "key"}

\* The candidates that are not skipped.
Selected(cs) ==
    {i \in 1..Len(cs) : Len(cs[i].words) >= 2 /\ ~BeginsWithConstraint(cs[i])}

\* The place among the columns of selected candidate i.
Rank(K, i) == Cardinality({j \in K : j <= i})

\* The words of c from the from-th on contain "a b", in any case.
ContainsFrom(c, from, a, b) ==
    /\ c.gap = " "
    /\ \E k \in from..(Len(c.words) - 1) :
          Upper(c.words[k]) = a /\ Upper(c.words[k + 1]) = b

\* C24 (heuristic flag scan scope), as the code has it: the flags of a column
\* come from the whole text of its candidate, its first two words included:
\* primaryKey is true exactly if the text contains PRIMARY KEY, nullable is
\* false exactly if it contains NOT NULL or PRIMARY KEY, in any case.
C24_FlagsFromWholeCandidate ==
    probe.step = 1 =>
        \A i \in Selected(probe.candidates) :
            LET c == probe.candidates[i]
                col == probe.columns[Rank(Selected(probe.candidates), i)]
            IN  /\ col.primaryKey = ContainsFrom(c, 1, "PRIMARY", "KEY")
                /\ col.nullable = ~(ContainsFrom(c, 1, "NOT", "NULL")
                                    \/ ContainsFrom(c, 1, "PRIMARY", "KEY"))

\* C24 as stated: the flags come from the text after the first two words.
C24_Original ==
    probe.step = 1 =>
        \A i \in Selected(probe.candidates) :
            LET c == probe.candidates[i]
                col == probe.columns[Rank(Selected(probe.candidates), i)]
            IN  /\ col.primaryKey = ContainsFrom(c, 3, "PRIMARY", "KEY")
                /\ col.nullable = ~(ContainsFrom(c, 3, "NOT", "NULL")
                                    \/ ContainsFrom(c, 3, "PRIMARY", "KEY"))

\* "a NOT null": the word taken for the type is NOT, the text after it is
\* null, and the column is not nullable.
C24_Witness ==
    /\ probe.step = 1
    /\ Len(probe.candidates) = 1
    /\ probe.candidates[1].words = <<"a", "NOT", "null">>
    /\ Len(probe.columns) = 1
    /\ probe.columns[1].type = "NOT"
    /\ ~probe.columns[1].nullable

\* C25 (heuristic column selection): a candidate that is empty, has fewer
\* than two words, or begins with PRIMARY KEY, FOREIGN KEY, UNIQUE, CHECK or
\* CONSTRAINT gives no column; every other candidate gives exactly one, named
\* by its first word and typed by its second, and the columns come in the
\* order of their candidates.
C25_ColumnSelection ==
    probe.step = 1 =>
        /\ Len(probe.columns) = Cardinality(Selected(probe.candidates))
        /\ \A i \in Selected(probe.candidates) :
              LET col == probe.columns[Rank(Selected(probe.candidates), i)]
              IN  /\ col.name = probe.candidates[i].words[1]
                  /\ col.type = probe.candidates[i].words[2]

\* Of two candidates the first, "CHECK_IN a", gave no column and the
\* second gave the only one.
C25_Witness ==
    /\ probe.step = 1
    /\ Len(probe.candidates) = 2
    /\ probe.candidates[1].words = <<"CHECK_IN", "a">>
    /\ Len(probe.columns) = 1
    /\ probe.columns[1].name = probe.candidates[2].words[1]
    /\ probe.columns[1].type = probe.candidates[2].words[2]

---------------------------------------------------------------------------
\* Properties of parseErrorLocation, over SpecLocate.

\* The numbers of the marker "--> [origin:]LINE:COLUMN" that the message's
\* arrow, origin and numbers parts make, or <<>> if they make none.  With
\* origin "7:" and no column after "1", the marker is "--> 7:1".
MarkerOfParts(p) ==
    IF p.arrow = <<>> THEN <<>>
    ELSE IF p.numbers = <<"1", ":", "43">> THEN <<1, 43>>
    ELSE IF p.origin = <<"7", ":">> /\ p.numbers \in {<<"1", ":">>, <<"1">>} THEN <<7, 1>>
    ELSE <<>>

\* The numbers of the first marker of the message, or <<>>.
FirstMarker(p) ==
    IF MarkerOfParts(p) # <<>> THEN MarkerOfParts(p)
    ELSE IF p.after # <<>> THEN <<3, 4>>
    ELSE <<>>

\* C26 (error locator): parseErrorLocation returns for every message, with
\* numbers for line and column; they are the numbers of the first marker
\* "--> [origin:]LINE:COLUMN" of the message if it has one, and 1 and 1 if it
\* has none.
C26_ErrorLocator ==
    probe.step = 1 =>
        /\ probe.location.line \in Nat
        /\ probe.location.column \in Nat
        /\ <<probe.location.line, probe.location.column>>
              = IF FirstMarker(probe) = <<>> THEN <<1, 1>> ELSE FirstMarker(probe)

\* A message with two markers, the first with an origin, after a text that
\* has numbers and colons of its own.
C26_Witness ==
    /\ probe.step = 1
    /\ probe.before = <<"12", ":", "5", " ">>
    /\ probe.origin = <<"undefined", ":">>
    /\ probe.after # <<>>
    /\ probe.location.line = 1
    /\ probe.location.column = 43

---------------------------------------------------------------------------
\* Properties of the App in time, over SpecFair.

\* The stored diagram, errors and isValid are what updateDiagram gives for
\* the current text.
Consistent ==
    /\ phase = "mounted"
    /\ ~updateDiagram(sqlCode, typed, env).threw
    /\ Final = [diagram |-> updateDiagram(sqlCode, typed, env).diagram,
                errors  |-> updateDiagram(sqlCode, typed, env).errors,
                isValid |-> updateDiagram(sqlCode, typed, env).isValid]

\* C27 (eventual consistency): if from some point on the text no longer
\* changes, then from some point on the stored (diagram, errors, isValid) is
\* updateDiagram's result for that text, for good.
C27_EventualConsistency ==
    <>[][sqlCode' = sqlCode]_vars => <>[]Consistent

\* After a change of the text its timeout has fired, and the stored state is
\* the result for the text.
C27_Witness ==
    /\ sqlCode # defaultSQL
    /\ lastCall.trigger = "timer"
    /\ timer.pending = {}
    /\ Consistent

---------------------------------------------------------------------------
\* Properties of the classification, over SpecExtract.

\* The place among the relationships of the foreign key at p, the keys K
\* being taken table after table and column after column.
KeyRank(K, p) ==
    Cardinality({q \in K : q[1] < p[1] \/ (q[1] = p[1] /\ q[2] <= p[2])})

\* determineRelationshipType applied to the table that declares the column
\* at p and to the table its foreign key names.
TypeInDeclaringTable(d, p) ==
    determineRelationshipType(
        d.tables[p[1]],
        d.tables[p[1]].columns[p[2]].name,
        FindByName(d.tables, d.tables[p[1]].columns[p[2]].foreignKey.table)[1],
        d.tables[p[1]].columns[p[2]].foreignKey.column)

\* The relationships of d are those of the keys K, in order, and each whose
\* referenced table is in d has the type its declaring table gives.
ClassifiedWhereDeclared(d, K) ==
    /\ Len(d.relationships) = Cardinality(K)
    /\ \A p \in K :
          /\ d.relationships[KeyRank(K, p)].from = EndsOf(d, p).from
          /\ d.relationships[KeyRank(K, p)].to = EndsOf(d, p).to
          /\ p \in ResolvableKeys(d) =>
                d.relationships[KeyRank(K, p)].type = TypeInDeclaringTable(d, p)

\* C28 as stated: in the result of either extractor, a relationship whose
\* referenced table exists has the type that determineRelationshipType
\* gives for the table in which its foreign-key column is declared, also
\* when two CREATE TABLE statements have the same table name.
C28_Original ==
    probe.step >= 2 /\ env = NormalEnv /\ OnlyTables(typed) =>
        /\ ClassifiedWhereDeclared(probe.grammar.result.diagram,
                                   ResolvableKeys(probe.grammar.result.diagram))
        /\ ClassifiedWhereDeclared(probe.simple.result.diagram,
                                   ForeignKeys(probe.simple.result.diagram))

\* The relationships of diagram d as a set of (from, to, type).
RelationshipSet(d) == {d.relationships[i] : i \in 1..Len(d.relationships)}

\* The CREATE TABLE statements of the document have pairwise distinct names.
DistinctTableNames(doc) ==
    \A i, j \in 1..Len(doc) : doc[i].name = doc[j].name => i = j

\* C29 (declaration-order independence): for a text of CREATE TABLE
\* statements with pairwise distinct table names, exchanging two statements
\* leaves the set of (from, to, type) of each extractor's relationships as it
\* was; a foreign key that references a table declared later has the
\* relationship and the type it has when that table is declared first.
C29_OrderIndependence ==
    probe.step = 5 /\ env = NormalEnv /\ OnlyTables(typed) /\ DistinctTableNames(typed) =>
        /\ RelationshipSet(probe.swapped.grammar.result.diagram)
              = RelationshipSet(probe.grammar.result.diagram)
        /\ RelationshipSet(probe.swapped.simple.result.diagram)
              = RelationshipSet(probe.simple.result.diagram)

\* The first statement's primary-key column references the table of the
\* second statement: a one-to-one relationship to a table declared later,
\* found again with the statements exchanged.
C29_Witness ==
    /\ probe.step = 5
    /\ env = NormalEnv
    /\ OnlyTables(typed)
    /\ DistinctTableNames(typed)
    /\ Len(typed) = 2
    /\ \E r \in RelationshipSet(probe.grammar.result.diagram)
                \cap RelationshipSet(probe.simple.result.diagram) :
          /\ r.from.table = typed[1].name
          /\ r.to.table = typed[2].name
          /\ r.type = "one-to-one"
          /\ r \in RelationshipSet(probe.swapped.grammar.result.diagram)
          /\ r \in RelationshipSet(probe.swapped.simple.result.diagram)

\* The types of the relationships of diagram d.
TypesOf(d) == {d.relationships[i].type : i \in 1..Len(d.relationships)}

\* The types the extractors and updateDiagram have produced so far.
TypesProduced ==
    TypesOf(probe.grammar.result.diagram)
    \cup TypesOf(probe.simple.result.diagram)
    \cup TypesOf(diagram)

====
